---- MODULE Spec2Model ----
(***************************************************************************)
(* Model of the stock analysis core: the OHLC validator and the daily to   *)
(* weekly aggregator (indicator_calculations/ohlc_aggregator.py), the      *)
(* indicator calculators and the StockAnalyzer object (main_algorithm.py), *)
(* and of the broker side: KiteConnector and KiteDataFetcher               *)
(* (kite_integration).                                                     *)
(*                                                                         *)
(* There are four specifications.  SpecPure applies one pure function to   *)
(* one input.  Spec is one StockAnalyzer object and its two methods.       *)
(* SpecShared is one StockAnalyzer object whose analyze_stock calls run    *)
(* step by step, one after the other or interleaved.  SpecKite is one      *)
(* KiteDataFetcher with its KiteConnector.  The variables connector and    *)
(* authenticated belong to SpecKite, tasks and objects to SpecShared.      *)
(*                                                                         *)
(* A DataFrame is a record [cols, rows]: cols is the set of column names,  *)
(* rows the sequence of rows.  iloc positions are 0-based in the source;   *)
(* position i is rows[i + 1] here.                                         *)
(***************************************************************************)
EXTENDS Integers, Sequences, FiniteSets, TLC

VARIABLES indicators, source, produced, op, arg, ret, calls, scanned, prev, connector, tasks, objects, authenticated

vars ==
    <<indicators, source, produced, op, arg, ret, calls, scanned, prev,
      connector, tasks, objects, authenticated>>

(***************************************************************************)
(* Bounds of the model.                                                    *)
(***************************************************************************)
MaxLen == 23
MaxShort == 2
NPat == 4

(***************************************************************************)
(* Generic helpers (pandas reductions over a column).                      *)
(***************************************************************************)
RECURSIVE SeqSum(_)
SeqSum(s) == IF Len(s) = 0 THEN 0 ELSE s[1] + SeqSum(Tail(s))

RECURSIVE SeqMax(_)
SeqMax(s) ==
    IF Len(s) = 1 THEN s[1]
    ELSE LET m == SeqMax(Tail(s)) IN IF s[1] >= m THEN s[1] ELSE m

RECURSIVE SeqMin(_)
SeqMin(s) ==
    IF Len(s) = 1 THEN s[1]
    ELSE LET m == SeqMin(Tail(s)) IN IF s[1] <= m THEN s[1] ELSE m

RECURSIVE SortedSeq(_)
SortedSeq(S) ==
    IF S = {} THEN <<>>
    ELSE LET m == CHOOSE x \in S : \A y \in S : x <= y
         IN <<m>> \o SortedSeq(S \ {m})

\* A series with its values computed: the tuple of the values at positions
\* 0 .. n-1.
Series(f) == <<>> \o f

Column(rows, c) == Series([i \in 1..Len(rows) |-> rows[i][c]])

(***************************************************************************)
(* Frames.                                                                 *)
(***************************************************************************)
required_columns == {"Date", "Open", "High", "Low", "Close", "Volume"}
price_columns == {"Open", "High", "Low", "Close"}

Frame(cols, rows) == [rows |-> rows, cols |-> cols]

MkBar(d, o, h, l, c, v) ==
    [Date |-> d, Open |-> o, High |-> h, Low |-> l, Close |-> c, Volume |-> v]

(***************************************************************************)
(* aggregate_daily_to_weekly: drop the first len % 5 rows, number the rest *)
(* from 0, group by index // 5 and emit one row per group of 5 rows.       *)
(* pd.DataFrame([]) of no rows has no columns.                             *)
(***************************************************************************)
WeekRowMut(week_num, week_group) ==
    [Date |-> week_group[Len(week_group)].Date,
     Open |-> week_group[1].Open,
     High |-> week_group[Len(week_group)].High,
     Low |-> SeqMin(Column(week_group, "Low")),
     Close |-> week_group[Len(week_group)].Close,
     Volume |-> SeqSum(Column(week_group, "Volume")),
     Week_Number |-> week_num + 1]

WeekRow(week_num, week_group) ==
    [Date |-> week_group[Len(week_group)].Date,
     Open |-> week_group[1].Open,
     High |-> SeqMax(Column(week_group, "High")),
     Low |-> SeqMin(Column(week_group, "Low")),
     Close |-> week_group[Len(week_group)].Close,
     Volume |-> SeqSum(Column(week_group, "Volume")),
     Week_Number |-> week_num + 1]

DaysToIgnoreMut(total_days) == 0

DaysToIgnore(total_days) == total_days % 5

\* The rows of Week_Group w: those whose reset index i has i // 5 = w.
GroupOf(kept, w) ==
    SubSeq(kept, 5 * w + 1,
           IF 5 * w + 5 <= Len(kept) THEN 5 * w + 5 ELSE Len(kept))

\* The groupby loop: one weekly row per group of exactly 5 rows.
WeeklyData(kept) ==
    LET week_nums == [k \in 1..((Len(kept) + 4) \div 5) |-> k - 1]
        complete == SelectSeq(week_nums, LAMBDA w : Len(GroupOf(kept, w)) = 5)
    IN [k \in 1..Len(complete) |-> WeekRow(complete[k], GroupOf(kept, complete[k]))]

WeeklyFrameMut(weekly_data) ==
    Frame(required_columns \cup {"Week_Number"}, weekly_data)

\* pd.DataFrame(weekly_data)
WeeklyFrame(weekly_data) ==
    Frame(IF Len(weekly_data) = 0 THEN {}
          ELSE required_columns \cup {"Week_Number"},
          weekly_data)

aggregate_daily_to_weekly(daily_ohlc) ==
    LET total_days == Len(daily_ohlc.rows)
        days_to_ignore == DaysToIgnore(total_days)
        kept == IF days_to_ignore > 0
                THEN SubSeq(daily_ohlc.rows, days_to_ignore + 1, total_days)
                ELSE daily_ohlc.rows
    IN WeeklyFrame(WeeklyData(kept))

(***************************************************************************)
(* The frames aggregate_daily_to_weekly works on, as objects.  frames[1]   *)
(* is the caller's frame; name is the object the local name daily_ohlc is  *)
(* bound to, which is the caller's frame when the call starts.             *)
(***************************************************************************)
\* Lines 25-27: daily_ohlc.iloc[days_to_ignore:].copy() is a new frame.
TrimFirstDays(h, days_to_ignore) ==
    IF days_to_ignore > 0
    THEN [frames |-> Append(h.frames,
                            Frame(h.frames[h.name].cols,
                                  SubSeq(h.frames[h.name].rows, days_to_ignore + 1,
                                         Len(h.frames[h.name].rows)))),
          name |-> Len(h.frames) + 1]
    ELSE h

ResetIndexMut(h) == h

\* Line 31: reset_index(drop=True) returns a new frame with the same rows.
ResetIndex(h) ==
    [frames |-> Append(h.frames, h.frames[h.name]), name |-> Len(h.frames) + 1]

\* Line 34: the column Week_Group is added to the frame daily_ohlc names.
WithWeekGroup(f) ==
    Frame(f.cols \cup {"Week_Group"},
          [i \in 1..Len(f.rows) |->
              [c \in DOMAIN f.rows[i] \cup {"Week_Group"} |->
                  IF c = "Week_Group" THEN (i - 1) \div 5 ELSE f.rows[i][c]]])

AddWeekGroup(h) ==
    [frames |-> [h.frames EXCEPT ![h.name] = WithWeekGroup(h.frames[h.name])],
     name |-> h.name]

\* The caller's frame when aggregate_daily_to_weekly has returned.
CallerFrameAfter(daily_ohlc) ==
    AddWeekGroup(
        ResetIndex(
            TrimFirstDays([frames |-> <<daily_ohlc>>, name |-> 1],
                          DaysToIgnore(Len(daily_ohlc.rows))))).frames[1]

(***************************************************************************)
(* validate_ohlc_data: the checks in source order, first failure returns.  *)
(***************************************************************************)
validate_ohlc_data_mut(ohlc_data) ==
    IF ~(required_columns \subseteq ohlc_data.cols) THEN FALSE
    ELSE IF \E i \in 1..Len(ohlc_data.rows) :
               \E c \in price_columns : ohlc_data.rows[i][c] < 0 THEN FALSE
    ELSE IF \E i \in 1..Len(ohlc_data.rows) :
               ~(ohlc_data.rows[i].High >= ohlc_data.rows[i].Low) THEN FALSE
    ELSE IF \E i \in 1..Len(ohlc_data.rows) :
               ~(ohlc_data.rows[i].High >= ohlc_data.rows[i].Open) THEN FALSE
    ELSE IF \E i \in 1..Len(ohlc_data.rows) :
               ~(ohlc_data.rows[i].High >= ohlc_data.rows[i].Close) THEN FALSE
    ELSE IF \E i \in 1..Len(ohlc_data.rows) :
               ~(ohlc_data.rows[i].Low <= ohlc_data.rows[i].Open) THEN FALSE
    ELSE TRUE

validate_ohlc_data(ohlc_data) ==
    IF ~(required_columns \subseteq ohlc_data.cols) THEN FALSE
    ELSE IF \E i \in 1..Len(ohlc_data.rows) :
               \E c \in price_columns : ohlc_data.rows[i][c] < 0 THEN FALSE
    ELSE IF \E i \in 1..Len(ohlc_data.rows) :
               ~(ohlc_data.rows[i].High >= ohlc_data.rows[i].Low) THEN FALSE
    ELSE IF \E i \in 1..Len(ohlc_data.rows) :
               ~(ohlc_data.rows[i].High >= ohlc_data.rows[i].Open) THEN FALSE
    ELSE IF \E i \in 1..Len(ohlc_data.rows) :
               ~(ohlc_data.rows[i].High >= ohlc_data.rows[i].Close) THEN FALSE
    ELSE IF \E i \in 1..Len(ohlc_data.rows) :
               ~(ohlc_data.rows[i].Low <= ohlc_data.rows[i].Open) THEN FALSE
    ELSE IF \E i \in 1..Len(ohlc_data.rows) :
               ~(ohlc_data.rows[i].Low <= ohlc_data.rows[i].Close) THEN FALSE
    ELSE TRUE

(***************************************************************************)
(* Return values.                                                          *)
(***************************************************************************)
None == [none |-> TRUE]
Ok(v) == [status |-> "ok", error |-> "none", value |-> v]
Raise(kind) == [status |-> "error", error |-> kind, value |-> None]

EMPTY == [empty |-> TRUE]

(***************************************************************************)
(* Indicator values.  A position of an indicator series is either NaN or   *)
(* the exact rational num/den.                                             *)
(***************************************************************************)
NaN == [def |-> FALSE, num |-> 0, den |-> 1]
Val(n, d) == [def |-> TRUE, num |-> n, den |-> d]

(***************************************************************************)
(* Exact arithmetic on indicator values.  Any operand that is NaN makes    *)
(* the result NaN, as in floating point.                                   *)
(***************************************************************************)
Abs(x) == IF x >= 0 THEN x ELSE 0 - x

RECURSIVE Gcd(_, _)
Gcd(a, b) == IF b = 0 THEN a ELSE Gcd(b, a % b)

\* The fraction n/d (d # 0) in lowest terms with a positive denominator.
Fraction(n, d) ==
    LET g == Gcd(Abs(n), Abs(d))
    IN IF d > 0 THEN Val(n \div g, d \div g)
       ELSE Val((0 - n) \div g, (0 - d) \div g)

Add(x, y) ==
    IF x.def /\ y.def
    THEN Fraction(x.num * y.den + y.num * x.den, x.den * y.den)
    ELSE NaN

Sub(x, y) ==
    IF x.def /\ y.def
    THEN Fraction(x.num * y.den - y.num * x.den, x.den * y.den)
    ELSE NaN

Scale(k, x) == IF x.def THEN Fraction(k * x.num, x.den) ELSE NaN

\* x / y for finite operands; 0/0 is NaN (a nonzero x over 0, an infinity,
\* is handled where it can occur).
Div(x, y) ==
    IF x.def /\ y.def /\ y.num # 0
    THEN Fraction(x.num * y.den, x.den * y.num)
    ELSE NaN

Leq(x, y) == x.num * y.den <= y.num * x.den

Eq(x, y) == x.num * y.den = y.num * x.den

AllDef(s) == \A i \in 1..Len(s) : s[i].def

RECURSIVE SumOf(_)
SumOf(s) == IF Len(s) = 0 THEN Val(0, 1) ELSE Add(s[1], SumOf(Tail(s)))

RECURSIVE MaxOf(_)
MaxOf(s) ==
    IF Len(s) = 1 THEN s[1]
    ELSE LET m == MaxOf(Tail(s)) IN IF Leq(m, s[1]) THEN s[1] ELSE m

RECURSIVE MinOf(_)
MinOf(s) ==
    IF Len(s) = 1 THEN s[1]
    ELSE LET m == MinOf(Tail(s)) IN IF Leq(s[1], m) THEN s[1] ELSE m

\* The window of series.rolling(window) ending at position i, or <<>> while
\* fewer than window observations are available (min_periods = window).
Window(series, window, i) ==
    IF window >= 1 /\ i >= window /\ AllDef(SubSeq(series, i - window + 1, i))
    THEN SubSeq(series, i - window + 1, i)
    ELSE <<>>

RollingMean(series, window) ==
    Series([i \in 1..Len(series) |->
               IF Window(series, window, i) = <<>> THEN NaN
               ELSE Div(SumOf(Window(series, window, i)), Val(window, 1))])

RollingMin(series, window) ==
    Series([i \in 1..Len(series) |->
               IF Window(series, window, i) = <<>> THEN NaN
               ELSE MinOf(Window(series, window, i))])

RollingMax(series, window) ==
    Series([i \in 1..Len(series) |->
               IF Window(series, window, i) = <<>> THEN NaN
               ELSE MaxOf(Window(series, window, i))])

Closes(ohlc) == Column(ohlc.rows, "Close")

calculate_sma_mut(prices, window) ==
    Series([i \in 1..Len(prices) |->
               IF i > window
               THEN Val(SeqSum(SubSeq(prices, i - window, i - 1)), window)
               ELSE NaN])

\* Series.rolling(window).mean(): NaN until the window is full.
calculate_sma(prices, window) ==
    Series([i \in 1..Len(prices) |->
               IF i >= window
               THEN Val(SeqSum(SubSeq(prices, i - window + 1, i)), window)
               ELSE NaN])

calculate_10_ma(ohlc_data) == Ok(calculate_sma(Closes(ohlc_data), 10))

calculate_20_ma(ohlc_data) == Ok(calculate_sma(Closes(ohlc_data), 20))

\* pct_change().dropna(): the labels that survive (label 0 and 0/0 are NaN).
ReturnLabels(prices) ==
    SortedSeq({i \in 1..(Len(prices) - 1) :
                  ~(prices[i] = 0 /\ prices[i + 1] = 0)})

\* returns.rolling(window).std(): one entry per surviving label, defined
\* once window returns are available (the value itself is not modelled).
RollingStdOfReturns(prices, window) ==
    LET labels == ReturnLabels(prices)
    IN [k \in 1..Len(labels) |->
           [def |-> (k >= window /\ window >= 2), label |-> labels[k]]]

\* The Garman-Klass and Parkinson estimators: a per-bar term followed by
\* rolling(window).mean(), one entry per bar (the value itself is not
\* modelled; def records that the window is full).
RollingRangeEstimator(rows, window) ==
    Series([i \in 1..Len(rows) |->
               [def |-> (window >= 1 /\ i >= window), label |-> i - 1]])

calculate_daily_volatility_mut(daily_ohlc, window, method) ==
    IF "Close" \notin daily_ohlc.cols THEN Raise("KeyError")
    ELSE IF method = "std"
    THEN Ok(RollingStdOfReturns(Closes(daily_ohlc), window))
    ELSE IF method \in {"garman_klass", "parkinson"}
    THEN Ok(RollingRangeEstimator(daily_ohlc.rows, window))
    ELSE Ok(RollingStdOfReturns(Closes(daily_ohlc), window))

calculate_daily_volatility(daily_ohlc, window, method) ==
    IF "Close" \notin daily_ohlc.cols THEN Raise("KeyError")
    ELSE IF method = "std"
    THEN Ok(RollingStdOfReturns(Closes(daily_ohlc), window))
    ELSE IF method \in {"garman_klass", "parkinson"}
    THEN Ok(RollingRangeEstimator(daily_ohlc.rows, window))
    ELSE Raise("ValueError")

WeeklyVolatilityOf(weekly_ohlc, window, method) ==
    IF method = "std"
    THEN (IF "Close" \notin weekly_ohlc.cols THEN Raise("KeyError")
          ELSE Ok(RollingStdOfReturns(Closes(weekly_ohlc), window)))
    ELSE IF method \in {"garman_klass", "parkinson"}
    THEN (IF "High" \notin weekly_ohlc.cols THEN Raise("KeyError")
          ELSE Ok(RollingRangeEstimator(weekly_ohlc.rows, window)))
    ELSE Raise("ValueError")

calculate_weekly_volatility(daily_ohlc, window, method) ==
    WeeklyVolatilityOf(aggregate_daily_to_weekly(daily_ohlc), window, method)

\* The result dictionary of the combined calculator; the daily variant runs
\* first, and the first variant that raises ends the call.
VolatilityDict(daily_vol, weekly_vol) ==
    IF daily_vol.status = "error" THEN daily_vol
    ELSE IF weekly_vol.status = "error" THEN weekly_vol
    ELSE Ok([daily_volatility |-> daily_vol.value,
             weekly_volatility |-> weekly_vol.value])

\* The window handed to the weekly variant: window // 5.
WeeklyVolatilityWindow(window) == window \div 5

calculate_volatility(daily_ohlc, window, method) ==
    VolatilityDict(calculate_daily_volatility(daily_ohlc, window, method),
                   calculate_weekly_volatility(daily_ohlc, WeeklyVolatilityWindow(window), method))

\* prices.diff(): NaN at position 0.
Diff(prices) ==
    Series([i \in 1..Len(prices) |->
               IF i = 1 THEN NaN ELSE Val(prices[i] - prices[i - 1], 1)])

\* delta.where(delta > 0, 0): the comparison is False on NaN, so NaN is
\* replaced by 0 like every other non-positive delta.
GainTerms(delta) ==
    Series([i \in 1..Len(delta) |->
               IF delta[i].def /\ delta[i].num > 0 THEN delta[i] ELSE Val(0, 1)])

\* -delta.where(delta < 0, 0)
LossTerms(delta) ==
    Series([i \in 1..Len(delta) |->
               IF delta[i].def /\ delta[i].num < 0
               THEN Val(0 - delta[i].num, 1) ELSE Val(0, 1)])

\* rs = gain / loss in floating point: x/0 is infinite for x > 0, 0/0 is NaN.
RelativeStrength(gain, loss) ==
    Series([i \in 1..Len(gain) |->
               IF ~gain[i].def \/ ~loss[i].def
               THEN [def |-> FALSE, num |-> 0, den |-> 1, inf |-> FALSE]
               ELSE IF loss[i].num = 0
               THEN [def |-> gain[i].num # 0, num |-> 0, den |-> 1,
                     inf |-> gain[i].num # 0]
               ELSE [def |-> TRUE, num |-> gain[i].num * loss[i].den,
                     den |-> gain[i].den * loss[i].num, inf |-> FALSE]])

\* rsi = 100 - (100 / (1 + rs)); 100 / infinity is 0.
RsiOf(rs) ==
    Series([i \in 1..Len(rs) |->
               IF ~rs[i].def THEN NaN
               ELSE IF rs[i].inf THEN Sub(Val(100, 1), Val(0, 1))
               ELSE Sub(Val(100, 1),
                        Div(Val(100, 1),
                            Add(Val(1, 1), Fraction(rs[i].num, rs[i].den))))])

RsiOfDelta(delta, window) ==
    RsiOf(RelativeStrength(RollingMean(GainTerms(delta), window),
                           RollingMean(LossTerms(delta), window)))

calculate_rsi(prices, window) == RsiOfDelta(Diff(prices), window)

StochKMut(rsi, rsi_low, rsi_high) ==
    Series([i \in 1..Len(rsi) |->
               IF rsi_high[i].def /\ Eq(rsi_high[i], rsi_low[i]) THEN Val(0, 1)
               ELSE Scale(100, Div(Sub(rsi[i], rsi_low[i]),
                                   Sub(rsi_high[i], rsi_low[i])))])

\* stoch_k = 100 * ((rsi - rsi_low) / (rsi_high - rsi_low)); the divisor is
\* 0 only when rsi = rsi_low = rsi_high, which is 0/0.
StochK(rsi, rsi_low, rsi_high) ==
    Series([i \in 1..Len(rsi) |->
               Scale(100, Div(Sub(rsi[i], rsi_low[i]),
                              Sub(rsi_high[i], rsi_low[i])))])

\* The %K / %D / RSI frame: one row per price.
StochasticRsiRows(rsi, stoch_k_smooth, stoch_d) ==
    Series([i \in 1..Len(rsi) |->
               [label |-> i - 1, K |-> stoch_k_smooth[i], D |-> stoch_d[i],
                RSI |-> rsi[i]]])

SmoothedFrame(rsi, stoch_k_smooth, d_smooth) ==
    StochasticRsiRows(rsi, stoch_k_smooth, RollingMean(stoch_k_smooth, d_smooth))

StochasticOfRsi(rsi, stoch_window, k_smooth, d_smooth) ==
    SmoothedFrame(rsi,
                  RollingMean(StochK(rsi, RollingMin(rsi, stoch_window),
                                     RollingMax(rsi, stoch_window)),
                              k_smooth),
                  d_smooth)

StochasticRsiFrame(prices, rsi_window, stoch_window, k_smooth, d_smooth) ==
    StochasticOfRsi(calculate_rsi(prices, rsi_window), stoch_window,
                    k_smooth, d_smooth)

calculate_daily_stochastic_rsi(daily_ohlc, rsi_window, stoch_window, k_smooth, d_smooth) ==
    Ok(StochasticRsiFrame(Closes(daily_ohlc), rsi_window, stoch_window,
                          k_smooth, d_smooth))

WeeklyStochasticRsiOf(weekly_ohlc, rsi_window, stoch_window, k_smooth, d_smooth) ==
    IF "Close" \notin weekly_ohlc.cols THEN Raise("KeyError")
    ELSE Ok(StochasticRsiFrame(Closes(weekly_ohlc), rsi_window, stoch_window,
                               k_smooth, d_smooth))

calculate_weekly_stochastic_rsi(daily_ohlc, rsi_window, stoch_window, k_smooth, d_smooth) ==
    WeeklyStochasticRsiOf(aggregate_daily_to_weekly(daily_ohlc), rsi_window,
                          stoch_window, k_smooth, d_smooth)

StochasticRsiDict(daily_stoch_rsi, weekly_stoch_rsi) ==
    IF weekly_stoch_rsi.status = "error" THEN weekly_stoch_rsi
    ELSE Ok([daily_stochastic_rsi |-> daily_stoch_rsi.value,
             weekly_stochastic_rsi |-> weekly_stoch_rsi.value])

calculate_stochastic_rsi(daily_ohlc, rsi_window, stoch_window, k_smooth, d_smooth) ==
    StochasticRsiDict(
        calculate_daily_stochastic_rsi(daily_ohlc, rsi_window, stoch_window,
                                       k_smooth, d_smooth),
        calculate_weekly_stochastic_rsi(daily_ohlc, rsi_window, stoch_window,
                                        k_smooth, d_smooth))

\* prices.rolling(window).std(), the sample standard deviation, kept as its
\* square (w * sum(x^2) - sum(x)^2) / (w * (w - 1)); NaN while the window is
\* not full and for a window of one observation.
RollingStdSquared(prices, window) ==
    Series([i \in 1..Len(prices) |->
               IF window >= 2 /\ i >= window
               THEN Fraction(
                        window * SeqSum([k \in 1..window |->
                                            prices[i - window + k] * prices[i - window + k]])
                          - SeqSum(SubSeq(prices, i - window + 1, i))
                              * SeqSum(SubSeq(prices, i - window + 1, i)),
                        window * (window - 1))
               ELSE NaN])

\* middle_band + (std * num_std): the value mid + coef * sqrt(var).
BandMut(middle_band, std_squared, num_std) ==
    Series([i \in 1..Len(middle_band) |->
               [def |-> middle_band[i].def /\ std_squared[i].def,
                mid |-> middle_band[i], coef |-> 0 - num_std, var |-> std_squared[i]]])

Band(middle_band, std_squared, num_std) ==
    Series([i \in 1..Len(middle_band) |->
               [def |-> middle_band[i].def /\ std_squared[i].def,
                mid |-> middle_band[i], coef |-> num_std, var |-> std_squared[i]]])

\* The tuple (upper_band, middle_band, lower_band).
BollingerBandsOf(middle_band, std_squared, num_std) ==
    [upper |-> Band(middle_band, std_squared, num_std),
     middle |-> middle_band,
     lower |-> Band(middle_band, std_squared, 0 - num_std)]

calculate_daily_bollinger_bands(daily_ohlc, window, num_std) ==
    Ok(BollingerBandsOf(calculate_sma(Closes(daily_ohlc), window),
                        RollingStdSquared(Closes(daily_ohlc), window), num_std))

WeeklyBollingerBandsOf(weekly_ohlc, window, num_std) ==
    IF "Close" \notin weekly_ohlc.cols THEN Raise("KeyError")
    ELSE Ok(BollingerBandsOf(calculate_sma(Closes(weekly_ohlc), window),
                             RollingStdSquared(Closes(weekly_ohlc), window),
                             num_std))

calculate_weekly_bollinger_bands(daily_ohlc, window, num_std) ==
    WeeklyBollingerBandsOf(aggregate_daily_to_weekly(daily_ohlc), window, num_std)

BollingerBandsDict(daily, weekly) ==
    IF weekly.status = "error" THEN weekly
    ELSE Ok([daily_bollinger_bands |-> daily.value,
             weekly_bollinger_bands |-> weekly.value])

\* The window handed to the weekly variant: window // 5.
WeeklyBollingerWindow(window) == window \div 5

calculate_bollinger_bands(daily_ohlc, window, num_std) ==
    BollingerBandsDict(
        calculate_daily_bollinger_bands(daily_ohlc, window, num_std),
        calculate_weekly_bollinger_bands(daily_ohlc, WeeklyBollingerWindow(window), num_std))

CumulativeVwapMut(rows) ==
    Series([i \in 1..Len(rows) |->
               LET cumulative_volume == SeqSum([k \in 1..Len(rows) |-> rows[k].Volume])
                   cumulative_volume_price ==
                       SeqSum([k \in 1..i |->
                           (rows[k].High + rows[k].Low + rows[k].Close) * rows[k].Volume])
               IN IF cumulative_volume = 0 THEN NaN
                  ELSE Val(cumulative_volume_price, 3 * cumulative_volume)])

\* Cumulative VWAP: cumsum(typical * volume) / cumsum(volume), with
\* typical = (High + Low + Close) / 3; 0/0 is NaN.
CumulativeVwap(rows) ==
    Series([i \in 1..Len(rows) |->
               LET cumulative_volume == SeqSum([k \in 1..i |-> rows[k].Volume])
                   cumulative_volume_price ==
                       SeqSum([k \in 1..i |->
                           (rows[k].High + rows[k].Low + rows[k].Close) * rows[k].Volume])
               IN IF cumulative_volume = 0 THEN NaN
                  ELSE Val(cumulative_volume_price, 3 * cumulative_volume)])

calculate_daily_vwap(daily_ohlc) == Ok(CumulativeVwap(daily_ohlc.rows))

WeeklyVwapOf(weekly_ohlc) ==
    IF "High" \notin weekly_ohlc.cols THEN Raise("KeyError")
    ELSE Ok(CumulativeVwap(weekly_ohlc.rows))

calculate_weekly_vwap(daily_ohlc) ==
    WeeklyVwapOf(aggregate_daily_to_weekly(daily_ohlc))

VwapDict(daily_vwap, weekly_vwap) ==
    IF weekly_vwap.status = "error" THEN weekly_vwap
    ELSE Ok([daily_vwap |-> daily_vwap.value,
             weekly_vwap |-> weekly_vwap.value])

calculate_vwap(daily_ohlc) ==
    VwapDict(calculate_daily_vwap(daily_ohlc), calculate_weekly_vwap(daily_ohlc))

(***************************************************************************)
(* Per-bar detector (indicator_calculations.trading_signals_increasing_    *)
(* market, not part of the sources at hand): a pure function of the        *)
(* series, the bundle and the index that returns one signal or None.  The  *)
(* precondition is a rising structure (10-bar mean at or above the 20-bar  *)
(* mean, close at or above the 20-bar mean); the cases are 1.a falling     *)
(* momentum, 1.b moving averages within 2% of each other, 1.c stalled      *)
(* close.  A bundle without the indicator keys fails the lookup.  Which    *)
(* inputs make the detector itself raise is not known; a series may carry  *)
(* the index at which the detector raises on it (field fault), so that the *)
(* detector stays a function of its three arguments.                       *)
(***************************************************************************)
WithDetectorFault(f, idx) == [rows |-> f.rows, cols |-> f.cols, fault |-> idx]

DetectorRaisesAt(ohlc_data, idx) ==
    "fault" \in DOMAIN ohlc_data /\ ohlc_data.fault = idx

are_mas_close(ma10, ma20) ==
    LET diff == ma10.num * ma20.den - ma20.num * ma10.den
        abs_diff == IF diff >= 0 THEN diff ELSE 0 - diff
    IN abs_diff * 100 <= 2 * ma20.num * ma10.den

detect_increasing_market_signals(ohlc_data, inds, idx) ==
    IF "ma_10" \notin DOMAIN inds THEN Raise("KeyError")
    ELSE IF DetectorRaisesAt(ohlc_data, idx) THEN Raise("DetectorError")
    ELSE
      LET row == ohlc_data.rows[idx + 1]
          before == ohlc_data.rows[idx]
          ma10 == inds.ma_10[idx + 1]
          ma20 == inds.ma_20[idx + 1]
          rising == /\ ma10.def /\ ma20.def
                    /\ ma10.num * ma20.den >= ma20.num * ma10.den
                    /\ row.Close * ma20.den >= ma20.num
          case == IF ~rising THEN "none"
                  ELSE IF row.Close < before.Close THEN "1.a"
                  ELSE IF are_mas_close(ma10, ma20) THEN "1.b"
                  ELSE IF row.Close = before.Close THEN "1.c"
                  ELSE "none"
      IN IF case = "none" THEN Ok(None)
         ELSE Ok([case |-> case, entry_price |-> row.Close,
                  stop_loss |-> row.Low,
                  target |-> 2 * row.Close - row.Low])

(***************************************************************************)
(* StockAnalyzer.detect_trading_signals.  lookback_days is                 *)
(* [given |-> FALSE] for None, [given |-> TRUE, days |-> k] otherwise.     *)
(***************************************************************************)
NoLookback == [given |-> FALSE, days |-> 0]
Lookback(k) == [given |-> TRUE, days |-> k]

BundleMissingMut(self_indicators) == FALSE

BundleMissing(self_indicators) == self_indicators = EMPTY

StartIdxMut(end_idx, lookback_days) == 21

StartIdxStateful(end_idx, lookback_days) ==
    IF prev.set /\ prev.ret.status = "ok" /\ prev.ret.value # <<>>
    THEN prev.ret.value[Len(prev.ret.value)].index + 1
    ELSE 20

StartIdx(end_idx, lookback_days) ==
    IF lookback_days.given /\ lookback_days.days # 0
    THEN (IF end_idx - lookback_days.days > 20
          THEN end_idx - lookback_days.days ELSE 20)
    ELSE 20

Range(start_idx, end_idx) ==
    [k \in 1..(IF end_idx > start_idx THEN end_idx - start_idx ELSE 0) |->
        start_idx + k - 1]

StampSignalMut(signal, ohlc_data, idx) ==
    [case |-> signal.case, entry_price |-> signal.entry_price,
     stop_loss |-> signal.stop_loss, target |-> signal.target,
     index |-> Len(ohlc_data.rows) - 1, date |-> ohlc_data.rows[idx + 1].Date]

StampSignal(signal, ohlc_data, idx) ==
    [case |-> signal.case, entry_price |-> signal.entry_price,
     stop_loss |-> signal.stop_loss, target |-> signal.target,
     index |-> idx,
     date |-> IF "Date" \in ohlc_data.cols
              THEN ohlc_data.rows[idx + 1].Date ELSE idx]

\* The for loop over the indices still to visit: state is the signals
\* collected and the indices handed to the detector so far.
RECURSIVE ScanLoop(_, _, _, _, _)
ScanStep(ohlc_data, inds, todo, signals, visited, signal) ==
    IF signal.status = "error"
    THEN [ret |-> signal, scanned |-> Append(visited, todo[1])]
    ELSE ScanLoop(ohlc_data, inds, Tail(todo),
                  IF signal.value # None
                  THEN Append(signals,
                              StampSignal(signal.value, ohlc_data, todo[1]))
                  ELSE signals,
                  Append(visited, todo[1]))

ScanLoop(ohlc_data, inds, todo, signals, visited) ==
    IF Len(todo) = 0 THEN [ret |-> Ok(signals), scanned |-> visited]
    ELSE ScanStep(ohlc_data, inds, todo, signals, visited,
                  detect_increasing_market_signals(ohlc_data, inds, todo[1]))

detect_trading_signals(self_indicators, ohlc_data, lookback_days) ==
    IF BundleMissing(self_indicators)
    THEN [ret |-> Raise("ValueError"), scanned |-> <<>>]
    ELSE LET end_idx == Len(ohlc_data.rows)
             start_idx == StartIdx(end_idx, lookback_days)
         IN ScanLoop(ohlc_data, self_indicators,
                     Range(start_idx, end_idx), <<>>, <<>>)

(***************************************************************************)
(* StockAnalyzer.analyze_stock: validate, run the calculators in source    *)
(* order, store the bundle in self.indicators, scan for signals, return    *)
(* the result.  The first step that raises ends the call.                  *)
(***************************************************************************)
ValidationGateMut(ohlc_data) == TRUE

ValidationGate(ohlc_data) == validate_ohlc_data(ohlc_data)

CalculatorSteps(ohlc_data) ==
    << [name |-> "calculate_volatility", res |-> calculate_volatility(ohlc_data, 20, "std")],
       [name |-> "calculate_stochastic_rsi", res |-> calculate_stochastic_rsi(ohlc_data, 14, 14, 3, 3)],
       [name |-> "calculate_bollinger_bands", res |-> calculate_bollinger_bands(ohlc_data, 20, 2)],
       [name |-> "calculate_vwap", res |-> calculate_vwap(ohlc_data)],
       [name |-> "calculate_10_ma", res |-> calculate_10_ma(ohlc_data)],
       [name |-> "calculate_20_ma", res |-> calculate_20_ma(ohlc_data)] >>

MakeBundle(steps) ==
    [daily_volatility |-> steps[1].res.value.daily_volatility,
     weekly_volatility |-> steps[1].res.value.weekly_volatility,
     daily_stochastic_rsi |-> steps[2].res.value.daily_stochastic_rsi,
     weekly_stochastic_rsi |-> steps[2].res.value.weekly_stochastic_rsi,
     daily_bollinger_bands |-> steps[3].res.value.daily_bollinger_bands,
     weekly_bollinger_bands |-> steps[3].res.value.weekly_bollinger_bands,
     daily_vwap |-> steps[4].res.value.daily_vwap,
     weekly_vwap |-> steps[4].res.value.weekly_vwap,
     ma_10 |-> steps[5].res.value,
     ma_20 |-> steps[6].res.value]

\* Lines 55-77: store the bundle, scan, build the result.
StoreAndScan(ohlc_data, stock_name, bundle, call_trace, d) ==
    [indicators |-> bundle,
     ret |-> IF d.ret.status = "error" THEN d.ret
             ELSE Ok([indicators |-> bundle, ohlc_data |-> ohlc_data,
                      stock_name |-> stock_name,
                      trading_signals |-> d.ret.value]),
     calls |-> call_trace \o <<"detect_trading_signals">>,
     scanned |-> d.scanned, stored |-> TRUE]

\* Lines 45-67: the calculators in order; the first one that raises ends
\* the call with self.indicators untouched.
RunCalculators(self_indicators, ohlc_data, stock_name, steps) ==
    LET failed == {k \in 1..Len(steps) : steps[k].res.status = "error"}
    IN IF failed # {}
       THEN LET k == CHOOSE x \in failed : \A y \in failed : x <= y
            IN [indicators |-> self_indicators, ret |-> steps[k].res,
                calls |-> <<"validate_ohlc_data">>
                          \o [j \in 1..k |-> steps[j].name],
                scanned |-> <<>>, stored |-> FALSE]
       ELSE StoreAndScan(ohlc_data, stock_name, MakeBundle(steps),
                         <<"validate_ohlc_data">>
                             \o [j \in 1..Len(steps) |-> steps[j].name],
                         detect_trading_signals(MakeBundle(steps), ohlc_data,
                                                NoLookback))

analyze_stock(self_indicators, ohlc_data, stock_name) ==
    IF ~ValidationGate(ohlc_data)
    THEN [indicators |-> self_indicators, ret |-> Raise("ValueError"),
          calls |-> <<"validate_ohlc_data">>, scanned |-> <<>>,
          stored |-> FALSE]
    ELSE RunCalculators(self_indicators, ohlc_data, stock_name,
                        CalculatorSteps(ohlc_data))

(***************************************************************************)
(* Input series.  Short series enumerate every sequence over a palette of  *)
(* bars (valid ones and one per validation rule); long series follow a     *)
(* price pattern.  Dates are the bar's position unless stated otherwise.   *)
(***************************************************************************)
Palette ==
    { [Open |-> 3, High |-> 5, Low |-> 2, Close |-> 4, Volume |-> 10],
      [Open |-> 6, High |-> 8, Low |-> 5, Close |-> 7, Volume |-> 0],
      [Open |-> 4, High |-> 4, Low |-> 4, Close |-> 4, Volume |-> 3],
      [Open |-> 0 - 1, High |-> 5, Low |-> 0 - 2, Close |-> 0, Volume |-> 1],
      [Open |-> 3, High |-> 2, Low |-> 4, Close |-> 3, Volume |-> 1],
      [Open |-> 6, High |-> 5, Low |-> 2, Close |-> 4, Volume |-> 1],
      [Open |-> 3, High |-> 5, Low |-> 2, Close |-> 6, Volume |-> 1],
      [Open |-> 1, High |-> 5, Low |-> 2, Close |-> 4, Volume |-> 1],
      [Open |-> 3, High |-> 5, Low |-> 2, Close |-> 1, Volume |-> 1] }

DateModes == {"increasing", "duplicate", "decreasing"}

DateAt(mode, i, n) ==
    CASE mode = "increasing" -> i
      [] mode = "duplicate" -> 1
      [] OTHER -> n + 1 - i

ShortFrame(bars, mode) ==
    Frame(required_columns,
          [i \in 1..Len(bars) |->
              MkBar(DateAt(mode, i, Len(bars)), bars[i].Open, bars[i].High,
                    bars[i].Low, bars[i].Close, bars[i].Volume)])

ShortSeries ==
    { ShortFrame(bars, mode) :
        bars \in UNION { [1..n -> Palette] : n \in 0..MaxShort },
        mode \in DateModes }

\* Close price of bar i (1-based) under pattern p.
PatClose(p, i) ==
    CASE p = 1 -> 10 + i
      [] p = 2 -> 10 + i - (IF i % 3 = 0 THEN 3 ELSE 0)
      [] p = 3 -> 20
      [] OTHER -> 10 + 2 * (i \div 2) + (p - 4)

GenBar(p, i) ==
    LET c == PatClose(p, i)
    IN MkBar(i, c - 1, c + 1 + (i % 2), c - 2 - (i % 3), c, (i * p) % 4)

Gen(n, p) == Frame(required_columns, [i \in 1..n |-> GenBar(p, i)])

LongSeries == { Gen(n, p) : n \in 0..MaxLen, p \in 1..NPat }

DropColumn(f, c) == Frame(f.cols \ {c}, f.rows)

MissingColumnSeries == { DropColumn(Gen(3, 1), c) : c \in required_columns }

\* Series given by their close prices: every sequence of up to MaxPriceLen
\* closes over CloseLevels, and one longer series whose weekly closes rise
\* and fall.
MaxPriceLen == 5
CloseLevels == {1, 2, 3}

PriceFrame(closes) ==
    Frame(required_columns,
          [i \in 1..Len(closes) |->
              MkBar(i, closes[i], closes[i] + 1, closes[i] - 1, closes[i],
                    (closes[i] + i) % 3)])

PriceSeries ==
    { PriceFrame(closes) :
        closes \in UNION { [1..n -> CloseLevels] : n \in 0..MaxPriceLen } }

Wave(n) == PriceFrame([i \in 1..n |-> 10 + ((i * i) % 7)])

WaveSeries == { Wave(n) : n \in 15..MaxLen }

NumericInputs == PriceSeries \cup LongSeries \cup WaveSeries

WeeklyInputs == LongSeries \cup WaveSeries

PureInputs ==
    ShortSeries \cup LongSeries \cup MissingColumnSeries \cup PriceSeries
        \cup WaveSeries

\* Parameters the calculators are called with.
MaxWindow == 3
Windows == 1..MaxWindow
Smoothings == {1, 2}
Methods == {"std", "garman_klass", "parkinson", "stdev", "GARMAN_KLASS", ""}

Prefix(f, k) == Frame(f.cols, SubSeq(f.rows, 1, k))

(***************************************************************************)
(* Specification of the pure functions: Init draws the input frame, one    *)
(* action applies each function to it.                                     *)
(***************************************************************************)
InitPure ==
    /\ indicators = EMPTY
    /\ source = {}
    /\ produced = FALSE
    /\ op = "none"
    /\ arg \in { [series |-> f] : f \in PureInputs }
    /\ ret = None
    /\ calls = <<>>
    /\ scanned = <<>>
    /\ prev = [set |-> FALSE]
    /\ connector = None
    /\ authenticated = FALSE
    /\ tasks = <<>>
    /\ objects = <<>>

Aggregate ==
    /\ op = "none"
    /\ required_columns \subseteq arg.series.cols
    /\ op' = "aggregate_daily_to_weekly"
    /\ ret' = Ok(aggregate_daily_to_weekly(arg.series))
    /\ arg' = [series |-> CallerFrameAfter(arg.series)]
    /\ UNCHANGED <<indicators, source, produced, calls, scanned, prev,
                 connector, tasks, objects, authenticated>>

Validate ==
    /\ op = "none"
    /\ op' = "validate_ohlc_data"
    /\ ret' = Ok(validate_ohlc_data(arg.series))
    /\ UNCHANGED <<indicators, source, produced, arg, calls, scanned, prev,
                 connector, tasks, objects, authenticated>>

Sma(window) ==
    /\ op = "none"
    /\ arg.series \in NumericInputs
    /\ op' = "calculate_sma"
    /\ arg' = [series |-> arg.series, window |-> window]
    /\ ret' = Ok(calculate_sma(Closes(arg.series), window))
    /\ UNCHANGED <<indicators, source, produced, calls, scanned, prev,
                 connector, tasks, objects, authenticated>>

Rsi(window) ==
    /\ op = "none"
    /\ arg.series \in NumericInputs
    /\ op' = "calculate_rsi"
    /\ arg' = [series |-> arg.series, window |-> window]
    /\ ret' = Ok(calculate_rsi(Closes(arg.series), window))
    /\ UNCHANGED <<indicators, source, produced, calls, scanned, prev,
                 connector, tasks, objects, authenticated>>

DailyStochasticRsi(rsi_window, stoch_window, k_smooth, d_smooth) ==
    /\ op = "none"
    /\ arg.series \in NumericInputs
    /\ op' = "calculate_daily_stochastic_rsi"
    /\ arg' = [series |-> arg.series, d_smooth |-> d_smooth,
               stoch_window |-> stoch_window, k_smooth |-> k_smooth,
               rsi_window |-> rsi_window]
    /\ ret' = calculate_daily_stochastic_rsi(arg.series, rsi_window,
                                             stoch_window, k_smooth, d_smooth)
    /\ UNCHANGED <<indicators, source, produced, calls, scanned, prev,
                 connector, tasks, objects, authenticated>>

WeeklyStochasticRsi(rsi_window, stoch_window, k_smooth, d_smooth) ==
    /\ op = "none"
    /\ arg.series \in WeeklyInputs
    /\ op' = "calculate_weekly_stochastic_rsi"
    /\ arg' = [series |-> arg.series, d_smooth |-> d_smooth,
               stoch_window |-> stoch_window, k_smooth |-> k_smooth,
               rsi_window |-> rsi_window]
    /\ ret' = calculate_weekly_stochastic_rsi(arg.series, rsi_window,
                                              stoch_window, k_smooth, d_smooth)
    /\ UNCHANGED <<indicators, source, produced, calls, scanned, prev,
                 connector, tasks, objects, authenticated>>

DailyBollingerBands(window) ==
    /\ op = "none"
    /\ arg.series \in NumericInputs
    /\ op' = "calculate_daily_bollinger_bands"
    /\ arg' = [series |-> arg.series, window |-> window]
    /\ ret' = calculate_daily_bollinger_bands(arg.series, window, 2)
    /\ UNCHANGED <<indicators, source, produced, calls, scanned, prev,
                 connector, tasks, objects, authenticated>>

WeeklyBollingerBands(window) ==
    /\ op = "none"
    /\ arg.series \in WeeklyInputs
    /\ op' = "calculate_weekly_bollinger_bands"
    /\ arg' = [series |-> arg.series, window |-> window]
    /\ ret' = calculate_weekly_bollinger_bands(arg.series, window, 2)
    /\ UNCHANGED <<indicators, source, produced, calls, scanned, prev,
                 connector, tasks, objects, authenticated>>

DailyVolatility(window, method) ==
    /\ op = "none"
    /\ arg.series \in WeeklyInputs
    /\ op' = "calculate_daily_volatility"
    /\ arg' = [series |-> arg.series, window |-> window, method |-> method]
    /\ ret' = calculate_daily_volatility(arg.series, window, method)
    /\ UNCHANGED <<indicators, source, produced, calls, scanned, prev,
                 connector, tasks, objects, authenticated>>

WeeklyVolatility(window, method) ==
    /\ op = "none"
    /\ arg.series \in WeeklyInputs
    /\ op' = "calculate_weekly_volatility"
    /\ arg' = [series |-> arg.series, window |-> window, method |-> method]
    /\ ret' = calculate_weekly_volatility(arg.series, window, method)
    /\ UNCHANGED <<indicators, source, produced, calls, scanned, prev,
                 connector, tasks, objects, authenticated>>

Volatility(window, method) ==
    /\ op = "none"
    /\ arg.series \in WeeklyInputs
    /\ op' = "calculate_volatility"
    /\ arg' = [series |-> arg.series, window |-> window, method |-> method]
    /\ ret' = calculate_volatility(arg.series, window, method)
    /\ UNCHANGED <<indicators, source, produced, calls, scanned, prev,
                 connector, tasks, objects, authenticated>>

BollingerBands(window) ==
    /\ op = "none"
    /\ arg.series \in WeeklyInputs
    /\ op' = "calculate_bollinger_bands"
    /\ arg' = [series |-> arg.series, window |-> window]
    /\ ret' = calculate_bollinger_bands(arg.series, window, 2)
    /\ UNCHANGED <<indicators, source, produced, calls, scanned, prev,
                 connector, tasks, objects, authenticated>>

\* calculate_daily_vwap on a prefix of the series and on the series itself.
DailyVwap(prefix_len) ==
    /\ op = "none"
    /\ required_columns \subseteq arg.series.cols
    /\ prefix_len <= Len(arg.series.rows)
    /\ op' = "calculate_daily_vwap"
    /\ arg' = [series |-> arg.series, prefix_len |-> prefix_len]
    /\ ret' = Ok([prefix |-> calculate_daily_vwap(Prefix(arg.series, prefix_len)).value,
                  full |-> calculate_daily_vwap(arg.series).value])
    /\ UNCHANGED <<indicators, source, produced, calls, scanned, prev,
                 connector, tasks, objects, authenticated>>

NextPure ==
    \/ Aggregate
    \/ Validate
    \/ \E window \in Windows : Sma(window)
    \/ \E window \in Windows : Rsi(window)
    \/ \E rsi_window \in Windows, stoch_window \in Windows,
          k_smooth \in Smoothings, d_smooth \in Smoothings :
          DailyStochasticRsi(rsi_window, stoch_window, k_smooth, d_smooth)
    \/ \E rsi_window \in Windows, stoch_window \in Windows,
          k_smooth \in Smoothings, d_smooth \in Smoothings :
          WeeklyStochasticRsi(rsi_window, stoch_window, k_smooth, d_smooth)
    \/ \E window \in Windows : DailyBollingerBands(window)
    \/ \E window \in Windows : WeeklyBollingerBands(window)
    \/ \E window \in {2, 20}, method \in Methods : DailyVolatility(window, method)
    \/ \E window \in {2, 20}, method \in Methods : WeeklyVolatility(window, method)
    \/ \E window \in {2, 20}, method \in Methods : Volatility(window, method)
    \/ \E window \in {2, 20} : BollingerBands(window)
    \/ \E prefix_len \in 0..MaxLen : DailyVwap(prefix_len)

SpecPure == InitPure /\ [][NextPure]_vars

(***************************************************************************)
(* C1: aggregate_daily_to_weekly on n bars drops exactly the first n mod 5 *)
(* bars and returns floor(n/5) weekly bars; weekly bar j spans the daily   *)
(* bars at positions (n mod 5)+5j .. (n mod 5)+5j+4, in chronological      *)
(* order.                                                                  *)
(***************************************************************************)
C1_WeeklyGrouping ==
    op = "aggregate_daily_to_weekly" =>
        LET n == Len(arg.series.rows)
            drop == n % 5
            w == ret.value.rows
        IN /\ Len(w) = n \div 5
           /\ \A j \in 0..(Len(w) - 1) :
                /\ w[j + 1].Open = arg.series.rows[drop + 5 * j + 1].Open
                /\ w[j + 1].Date = arg.series.rows[drop + 5 * j + 5].Date
                /\ w[j + 1].Close = arg.series.rows[drop + 5 * j + 5].Close
                /\ w[j + 1].Week_Number = j + 1
           /\ \A j \in 1..(Len(w) - 1) :
                (\A i \in 1..(n - 1) : arg.series.rows[i].Date < arg.series.rows[i + 1].Date)
                    => w[j].Date < w[j + 1].Date

C1_Witness ==
    /\ op = "aggregate_daily_to_weekly"
    /\ Len(arg.series.rows) = 23
    /\ Len(ret.value.rows) = 4
    /\ ret.value.rows[1].Date = 8

(***************************************************************************)
(* C2: every weekly bar has Open of its first day, Close and Date of its   *)
(* fifth day, the highest High, the lowest Low and the exact sum of the    *)
(* five Volumes.                                                           *)
(***************************************************************************)
C2_WeeklyBarFields ==
    op = "aggregate_daily_to_weekly" =>
        LET n == Len(arg.series.rows)
            drop == n % 5
            w == ret.value.rows
        IN \A j \in 1..Len(w) :
             LET b == [k \in 0..4 |-> arg.series.rows[drop + 5 * (j - 1) + k + 1]]
             IN /\ w[j].Open = b[0].Open
                /\ w[j].Close = b[4].Close
                /\ w[j].Date = b[4].Date
                /\ \E k \in 0..4 : w[j].High = b[k].High
                /\ \A k \in 0..4 : w[j].High >= b[k].High
                /\ \E k \in 0..4 : w[j].Low = b[k].Low
                /\ \A k \in 0..4 : w[j].Low <= b[k].Low
                /\ w[j].Volume = b[0].Volume + b[1].Volume + b[2].Volume
                                   + b[3].Volume + b[4].Volume

C2_Witness ==
    /\ op = "aggregate_daily_to_weekly"
    /\ Len(ret.value.rows) >= 2
    /\ ret.value.rows[1].High > arg.series.rows[(Len(arg.series.rows) % 5) + 5].High
    /\ ret.value.rows[1].Low < arg.series.rows[(Len(arg.series.rows) % 5) + 1].Low
    /\ ret.value.rows[1].Volume > 0

(***************************************************************************)
(* C3: validate_ohlc_data returns TRUE exactly when the six columns are    *)
(* present, no price is negative and every bar has High >= max(Open,       *)
(* Close, Low) and Low <= min(Open, Close, High); timestamps are not       *)
(* inspected.  A series with a bar whose High < Low fails.                 *)
(***************************************************************************)
BarConsistent(r) ==
    /\ r.Open >= 0 /\ r.High >= 0 /\ r.Low >= 0 /\ r.Close >= 0
    /\ r.High >= r.Open /\ r.High >= r.Close /\ r.High >= r.Low
    /\ r.Low <= r.Open /\ r.Low <= r.Close

FieldsAndBarsHold(f) ==
    /\ \A c \in {"Date", "Open", "High", "Low", "Close", "Volume"} : c \in f.cols
    /\ \A i \in 1..Len(f.rows) : BarConsistent(f.rows[i])

DatesStrictlyIncreasing(f) ==
    \A i \in 1..(Len(f.rows) - 1) : f.rows[i].Date < f.rows[i + 1].Date

C3_ValidateIffBarRules ==
    op = "validate_ohlc_data" =>
        /\ ret.value = FieldsAndBarsHold(arg.series)
        /\ (\E i \in 1..Len(arg.series.rows) : arg.series.rows[i].High < arg.series.rows[i].Low)
               => ret.value = FALSE

C3_Witness ==
    /\ op = "validate_ohlc_data"
    /\ ret.value = TRUE
    /\ Len(arg.series.rows) = 2
    /\ ~DatesStrictlyIncreasing(arg.series)

\* C3 as originally stated: TRUE iff every data-model invariant holds,
\* strictly increasing timestamps included.
C3_Original ==
    op = "validate_ohlc_data" =>
        (ret.value = (FieldsAndBarsHold(arg.series) /\ DatesStrictlyIncreasing(arg.series)))

(***************************************************************************)
(* Specification of one StockAnalyzer object: Init is the state after      *)
(* __init__, the actions are its two public methods.  produced records     *)
(* that some analyze_stock call has stored a bundle, source the series it  *)
(* was computed from; prev records the most recent completed scan.         *)
(***************************************************************************)
MaxLookback == 2
StockNames == {"AAA"}

Corrupt(f, i) ==
    Frame(f.cols, [f.rows EXCEPT ![i].High = f.rows[i].Low - 1])

InvalidInputs ==
    { DropColumn(Gen(21, 1), "Volume"), Corrupt(Gen(22, 2), 21),
      Corrupt(Gen(3, 1), 2),
      Frame(required_columns, <<MkBar(1, 0 - 1, 5, 0 - 2, 0, 1)>>) }

\* A valid series on which the detector raises at a scanned index.
FaultyInputs == { WithDetectorFault(Gen(22, 1), 21) }

AnalyzerInputs ==
    { Gen(n, 1) : n \in 0..19 }
        \cup { Gen(n, p) : n \in 20..MaxLen, p \in 1..NPat }
        \cup InvalidInputs \cup FaultyInputs

Lookbacks == {NoLookback} \cup { Lookback(k) : k \in 0..MaxLookback }

SameScan(s, inds, lookback_days) ==
    /\ prev.set
    /\ prev.series = s
    /\ prev.indicators = inds
    /\ prev.lookback = lookback_days

Init ==
    /\ indicators = EMPTY
    /\ source = {}
    /\ produced = FALSE
    /\ op = "none"
    /\ arg = None
    /\ ret = None
    /\ calls = <<>>
    /\ scanned = <<>>
    /\ prev = [set |-> FALSE]
    /\ connector = None
    /\ authenticated = FALSE
    /\ tasks = <<>>
    /\ objects = <<>>

AnalyzeStock(s, name) ==
    \E r \in {analyze_stock(indicators, s, name)} :
       /\ indicators' = r.indicators
       /\ source' = (IF r.stored THEN {s} ELSE source)
       /\ produced' = (produced \/ r.stored)
       /\ op' = "analyze_stock"
       /\ arg' = [series |-> s, stock_name |-> name, lookback |-> NoLookback]
       /\ ret' = r.ret
       /\ calls' = r.calls
       /\ scanned' = r.scanned
       /\ prev' = IF r.stored /\ r.ret.status = "ok"
                  THEN [indicators |-> r.indicators,
                        ret |-> Ok(r.ret.value.trading_signals),
                        series |-> s, set |-> TRUE, lookback |-> NoLookback,
                        repeat |-> SameScan(s, r.indicators, NoLookback)]
                  ELSE prev
       /\ UNCHANGED <<connector, tasks, objects, authenticated>>

\* detect_trading_signals is called with the series the held bundle was
\* computed from, or with any series while no bundle is held.
DetectTradingSignals(s, lookback_days) ==
    /\ (indicators = EMPTY \/ s \in source)
    /\ \E d \in {detect_trading_signals(indicators, s, lookback_days)} :
          /\ op' = "detect_trading_signals"
          /\ arg' = [series |-> s, stock_name |-> "", lookback |-> lookback_days]
          /\ ret' = d.ret
          /\ calls' = <<>>
          /\ scanned' = d.scanned
          /\ prev' = IF d.ret.status = "ok"
                     THEN [indicators |-> indicators, ret |-> d.ret,
                           series |-> s,
                           set |-> TRUE, lookback |-> lookback_days,
                           repeat |-> SameScan(s, indicators, lookback_days)]
                     ELSE prev
    /\ UNCHANGED <<indicators, source, produced, connector, tasks, objects, authenticated>>

Next ==
    \/ \E s \in AnalyzerInputs, name \in StockNames : AnalyzeStock(s, name)
    \/ \E s \in AnalyzerInputs, lookback_days \in Lookbacks :
          DetectTradingSignals(s, lookback_days)

Spec == Init /\ [][Next]_vars

(***************************************************************************)
(* Shorthands for the properties of the analyzer.                          *)
(***************************************************************************)
BundleKeys ==
    {"daily_volatility", "weekly_volatility", "daily_stochastic_rsi",
     "weekly_stochastic_rsi", "daily_bollinger_bands",
     "weekly_bollinger_bands", "daily_vwap", "weekly_vwap", "ma_10", "ma_20"}

CalculatorNames ==
    {"calculate_volatility", "calculate_stochastic_rsi",
     "calculate_bollinger_bands", "calculate_vwap", "calculate_10_ma",
     "calculate_20_ma"}

Called(name) == \E i \in 1..Len(calls) : calls[i] = name

\* The signal list returned by the last call, when it returned one.
LastSignals ==
    IF op = "analyze_stock" THEN ret.value.trading_signals ELSE ret.value

ScanReturned ==
    /\ op \in {"analyze_stock", "detect_trading_signals"}
    /\ ret.status = "ok"

FullScanReturned == ScanReturned /\ ~arg.lookback.given

(***************************************************************************)
(* C4: analyze_stock on a series that fails validation raises at once: no  *)
(* indicator calculator and no signal detection runs before the error and  *)
(* no result is returned.                                                  *)
(***************************************************************************)
C4_InvalidSeriesRaisesFirst ==
    (op = "analyze_stock" /\ ~FieldsAndBarsHold(arg.series)) =>
        /\ ret.status = "error"
        /\ ret.error = "ValueError"
        /\ ret.value = None
        /\ \A name \in CalculatorNames : ~Called(name)
        /\ ~Called("detect_trading_signals")
        /\ scanned = <<>>

C4_Witness ==
    /\ op = "analyze_stock"
    /\ Len(arg.series.rows) = 22
    /\ ~FieldsAndBarsHold(arg.series)
    /\ ret.status = "error"
    /\ calls = <<"validate_ohlc_data">>

(***************************************************************************)
(* C5: detect_trading_signals succeeds only after some analyze_stock on    *)
(* the instance has stored a bundle; before that it raises and returns no  *)
(* signal list.                                                            *)
(***************************************************************************)
C5_DetectNeedsBundle ==
    op = "detect_trading_signals" =>
        /\ ret.status = "ok" => produced
        /\ ~produced => /\ ret.status = "error"
                        /\ ret.error = "ValueError"
                        /\ ret.value = None
                        /\ scanned = <<>>

C5_Witness ==
    /\ op = "detect_trading_signals"
    /\ ~produced
    /\ ret.status = "error"
    /\ Len(arg.series.rows) < 20

(***************************************************************************)
(* C6: a scan without lookback hands every index 20 .. len-1 to the        *)
(* detector exactly once, in ascending order, and returns exactly the      *)
(* non-empty detector results, in strictly ascending index order.          *)
(***************************************************************************)
C6_FullScanOrder ==
    FullScanReturned =>
        LET n == Len(arg.series.rows)
            sig == LastSignals
            Hit(i) == detect_increasing_market_signals(arg.series, indicators, i).value
        IN /\ Len(scanned) = (IF n > 20 THEN n - 20 ELSE 0)
           /\ \A k \in 1..Len(scanned) : scanned[k] = 19 + k
           /\ \A k \in 1..(Len(sig) - 1) : sig[k].index < sig[k + 1].index
           /\ {sig[k].index : k \in 1..Len(sig)}
                 = {i \in 20..(n - 1) : Hit(i) # None}
           /\ \A k \in 1..Len(sig) :
                /\ sig[k].index \in 20..(n - 1)
                /\ sig[k].case = Hit(sig[k].index).case
                /\ sig[k].entry_price = Hit(sig[k].index).entry_price
                /\ sig[k].date = arg.series.rows[sig[k].index + 1].Date

C6_Witness ==
    /\ FullScanReturned
    /\ Len(arg.series.rows) = 23
    /\ scanned = <<20, 21, 22>>
    /\ Len(LastSignals) = 2
    /\ LastSignals[1].index = 20
    /\ LastSignals[2].index = 22

(***************************************************************************)
(* C7: no two signals of one returned list share the same (bar index,      *)
(* case) pair.                                                             *)
(***************************************************************************)
C7_NoDuplicateSignal ==
    ScanReturned =>
        \A i, j \in 1..Len(LastSignals) :
            (i # j) => ~(/\ LastSignals[i].index = LastSignals[j].index
                         /\ LastSignals[i].case = LastSignals[j].case)

C7_Witness ==
    /\ ScanReturned
    /\ Len(LastSignals) >= 2
    /\ LastSignals[1].case = LastSignals[2].case

(***************************************************************************)
(* C8: scanning the same series twice against the same held bundle (and    *)
(* the same lookback) returns the same signals both times, and the list    *)
(* recorded for the first scan is what the first scan returned.            *)
(***************************************************************************)
RepeatsLastScan ==
    /\ prev.set
    /\ op' \in {"analyze_stock", "detect_trading_signals"}
    /\ ret'.status = "ok"
    /\ prev.series = arg'.series
    /\ prev.indicators = indicators'
    /\ prev.lookback = arg'.lookback

ShortValidAnalysis ==
    /\ op = "analyze_stock"
    /\ FieldsAndBarsHold(arg.series)
    /\ Len(arg.series.rows) < 20

C9_ShortSeriesSucceeds ==
    ShortValidAnalysis =>
        /\ ret.status = "ok"
        /\ DOMAIN ret.value.indicators = BundleKeys
        /\ ret.value.trading_signals = <<>>

(***************************************************************************)
(* C10: analyzing a valid series shorter than 20 bars raises only for      *)
(* lengths 0..4, where the weekly frame is empty and the first weekly      *)
(* calculator fails with a KeyError; every length 5..19 returns a result   *)
(* whose signal list is empty.                                             *)
(***************************************************************************)
C10_ShortSeriesErrorOnlyBelowFive ==
    ShortValidAnalysis =>
        /\ (ret.status = "error") = (Len(arg.series.rows) < 5)
        /\ ret.status = "error" =>
              /\ ret.error = "KeyError"
              /\ calls = <<"validate_ohlc_data", "calculate_volatility">>
        /\ ret.status = "ok" => ret.value.trading_signals = <<>>

C10_Witness ==
    /\ ShortValidAnalysis
    /\ Len(arg.series.rows) = 19
    /\ ret.status = "ok"
    /\ ret.value.trading_signals = <<>>

\* C10 as originally stated: every length 0..19 surfaces an
\* InsufficientData error instead of a result.
C10_Original ==
    ShortValidAnalysis =>
        /\ ret.status = "error"
        /\ ret.error = "InsufficientDataError"

(***************************************************************************)
(* C11: analyze_stock is all-or-nothing: whenever the call raises          *)
(* (validation, an indicator calculator or signal detection failing), the  *)
(* held bundle is exactly what it was before the call.                     *)
(***************************************************************************)
C11_AllOrNothing ==
    [][(op' = "analyze_stock" /\ ret'.status = "error")
          => indicators' = indicators]_vars

(***************************************************************************)
(* C12: in the bundle every daily indicator series has exactly one         *)
(* position per daily bar (length n, position i for bar i) and every       *)
(* weekly series one position per weekly bar (length floor(n/5)),          *)
(* daily_volatility and weekly_volatility included.                        *)
(***************************************************************************)
DailySeriesOf(bundle) ==
    << bundle.daily_volatility, bundle.daily_stochastic_rsi,
       bundle.daily_bollinger_bands.upper, bundle.daily_bollinger_bands.middle,
       bundle.daily_bollinger_bands.lower, bundle.daily_vwap,
       bundle.ma_10, bundle.ma_20 >>

WeeklySeriesOf(bundle) ==
    << bundle.weekly_volatility, bundle.weekly_stochastic_rsi,
       bundle.weekly_bollinger_bands.upper, bundle.weekly_bollinger_bands.middle,
       bundle.weekly_bollinger_bands.lower, bundle.weekly_vwap >>

C12_SeriesAligned ==
    (op = "analyze_stock" /\ ret.status = "ok") =>
        LET n == Len(arg.series.rows)
            bundle == ret.value.indicators
        IN /\ \A k \in 1..Len(DailySeriesOf(bundle)) :
                Len(DailySeriesOf(bundle)[k]) = n
           /\ \A k \in 1..Len(WeeklySeriesOf(bundle)) :
                Len(WeeklySeriesOf(bundle)[k]) = n \div 5
           /\ \A i \in 1..Len(bundle.daily_volatility) :
                bundle.daily_volatility[i].label = i - 1
           /\ \A i \in 1..Len(bundle.weekly_volatility) :
                bundle.weekly_volatility[i].label = i - 1

(***************************************************************************)
(* C13: calculate_sma(prices, window) is undefined at every position       *)
(* i < window-1 and at every position i >= window-1 equals the arithmetic  *)
(* mean of prices[i-window+1 .. i]; with window = 1 the result equals the  *)
(* price series itself, position for position.                             *)
(***************************************************************************)
C13_SmaIsWindowMean ==
    op = "calculate_sma" =>
        LET prices == [i \in 0..(Len(arg.series.rows) - 1) |->
                          arg.series.rows[i + 1].Close]
            sma == ret.value
        IN /\ Len(sma) = Len(arg.series.rows)
           /\ \A i \in DOMAIN prices :
                /\ i < arg.window - 1 => ~sma[i + 1].def
                /\ i >= arg.window - 1 =>
                     /\ sma[i + 1].def
                     /\ sma[i + 1].num * arg.window
                          = sma[i + 1].den
                              * SeqSum([k \in 1..arg.window |->
                                           prices[i - arg.window + k]])
                /\ arg.window = 1 =>
                     sma[i + 1].num = prices[i] * sma[i + 1].den

C13_Witness ==
    /\ op = "calculate_sma"
    /\ arg.window = 1
    /\ Len(ret.value) = 4
    /\ arg.series.rows[1].Close # arg.series.rows[2].Close
    /\ \A i \in 1..4 : ret.value[i] = Val(arg.series.rows[i].Close, 1)

(***************************************************************************)
(* C14: at every index where the Bollinger bands (daily or weekly,         *)
(* k = 2) are defined, lower <= middle <= upper, and                       *)
(* lower = middle = upper only when the rolling standard deviation of the  *)
(* window is exactly 0.                                                    *)
(***************************************************************************)
\* a.mid + a.coef * sqrt(v) <= b.mid + b.coef * sqrt(v), decided exactly:
\* with c = a.coef - b.coef and d = b.mid - a.mid it is c * sqrt(v) <= d.
BandLeq(a, b, v) ==
    LET c == a.coef - b.coef
        d == Sub(b.mid, a.mid)
        lhs == c * c * v.num * d.den * d.den
        rhs == d.num * d.num * v.den
    IN IF c >= 0 THEN d.num >= 0 /\ lhs <= rhs
       ELSE d.num >= 0 \/ lhs >= rhs

MiddleAt(bands, i) ==
    [def |-> bands.middle[i].def, mid |-> bands.middle[i], coef |-> 0,
     var |-> bands.upper[i].var]

BandsDefinedAt(bands, i) ==
    bands.upper[i].def /\ bands.middle[i].def /\ bands.lower[i].def

BollingerReturned ==
    /\ op \in {"calculate_daily_bollinger_bands",
               "calculate_weekly_bollinger_bands"}
    /\ ret.status = "ok"

C14_BollingerOrdered ==
    BollingerReturned =>
        \A i \in 1..Len(ret.value.middle) :
            BandsDefinedAt(ret.value, i) =>
                LET v == ret.value.upper[i].var
                    lower == ret.value.lower[i]
                    middle == MiddleAt(ret.value, i)
                    upper == ret.value.upper[i]
                IN /\ BandLeq(lower, middle, v)
                   /\ BandLeq(middle, upper, v)
                   /\ (BandLeq(upper, lower, v) => v.num = 0)
                   /\ (v.num = 0 => BandLeq(upper, lower, v))

C14_Witness ==
    /\ op = "calculate_weekly_bollinger_bands"
    /\ ret.status = "ok"
    /\ \E i, j \in 1..Len(ret.value.middle) :
          /\ BandsDefinedAt(ret.value, i)
          /\ ret.value.upper[i].var.num > 0
          /\ ~BandLeq(ret.value.upper[i], MiddleAt(ret.value, i),
                      ret.value.upper[i].var)
          /\ BandsDefinedAt(ret.value, j)
          /\ ret.value.upper[j].var.num = 0

(***************************************************************************)
(* C15: in calculate_rsi, at every position where the rolling mean of      *)
(* losses over the window is 0 the RSI value is undefined, whether the     *)
(* mean gain is positive or also 0; it is never reported as a number.      *)
(***************************************************************************)
MeanGain(prices, window) == RollingMean(GainTerms(Diff(prices)), window)

MeanLoss(prices, window) == RollingMean(LossTerms(Diff(prices)), window)

C15_RsiUndefinedOnZeroLoss ==
    op = "calculate_rsi" =>
        \A i \in 1..Len(ret.value) :
            LET loss == MeanLoss(Closes(arg.series), arg.window)[i]
            IN (loss.def /\ loss.num = 0) => ~ret.value[i].def

(***************************************************************************)
(* C17: an undefined value is never coerced to 0 in calculate_rsi: the     *)
(* price delta, the gain and the loss at index 0 are undefined, and RSI    *)
(* with window w has no defined value at any index below w.                *)
(***************************************************************************)
C17_RsiKeepsUndefinedDelta ==
    (op = "calculate_rsi" /\ Len(arg.series.rows) >= 1) =>
        LET delta == Diff(Closes(arg.series))
        IN /\ ~delta[1].def
           /\ ~GainTerms(delta)[1].def
           /\ ~LossTerms(delta)[1].def
           /\ \A i \in 0..(Len(ret.value) - 1) :
                i < arg.window => ~ret.value[i + 1].def

(***************************************************************************)
(* C16: every defined %K and %D value of the stochastic RSI calculators    *)
(* (daily and weekly) lies in [0, 100], and a position whose RSI maximum   *)
(* equals its RSI minimum over the stochastic window is undefined.         *)
(***************************************************************************)
InPercentRange(x) == x.num >= 0 /\ x.num <= 100 * x.den

StochasticRsiReturned ==
    /\ op \in {"calculate_daily_stochastic_rsi",
               "calculate_weekly_stochastic_rsi"}
    /\ ret.status = "ok"

\* The RSI values of the stochastic window ending at row i are all defined
\* and all equal.
FlatRsiWindow(rows, stoch_window, i) ==
    /\ i >= stoch_window
    /\ \A k \in (i - stoch_window + 1)..i :
          /\ rows[k].RSI.def
          /\ rows[k].RSI.num * rows[i].RSI.den = rows[i].RSI.num * rows[k].RSI.den

C16_StochasticRsiInRange ==
    StochasticRsiReturned =>
        \A i \in 1..Len(ret.value) :
            /\ ret.value[i].K.def => InPercentRange(ret.value[i].K)
            /\ ret.value[i].D.def => InPercentRange(ret.value[i].D)
            /\ FlatRsiWindow(ret.value, arg.stoch_window, i) =>
                  ~ret.value[i].K.def /\ ~ret.value[i].D.def

C16_Witness ==
    /\ StochasticRsiReturned
    /\ \E i, j \in 1..Len(ret.value) :
          /\ ret.value[i].K.def
          /\ ret.value[i].K.num > 0
          /\ ret.value[i].K.num < 100 * ret.value[i].K.den
          /\ ret.value[i].D.def
          /\ FlatRsiWindow(ret.value, arg.stoch_window, j)
          /\ ~ret.value[j].K.def

(***************************************************************************)
(* C18: the volatility calculators called with a method other than 'std',  *)
(* 'garman_klass' or 'parkinson' raise a configuration error at call time  *)
(* for every input series and never return a series.                       *)
(***************************************************************************)
VolatilityCalled ==
    op \in {"calculate_daily_volatility", "calculate_weekly_volatility",
            "calculate_volatility"}

C18_UnknownMethodRaises ==
    (VolatilityCalled /\ arg.method \notin {"std", "garman_klass", "parkinson"})
        => /\ ret.status = "error"
           /\ ret.error = "ValueError"
           /\ ret.value = None

C18_Witness ==
    /\ op = "calculate_weekly_volatility"
    /\ arg.method = "stdev"
    /\ Len(arg.series.rows) = 3
    /\ ret = Raise("ValueError")

(***************************************************************************)
(* C19: cumulative VWAP is prefix-stable: for every prefix P of a series S *)
(* calculate_daily_vwap(P) equals calculate_daily_vwap(S) at every         *)
(* position of P, and the value at position i is                           *)
(* sum_{j<=i}(typical_j * volume_j) / sum_{j<=i}(volume_j) with            *)
(* typical = (High + Low + Close) / 3.                                     *)
(***************************************************************************)
VolumeUpTo(rows, i) == SeqSum([j \in 1..i |-> rows[j].Volume])

\* Three times the running sum of typical price times volume.
TripleVolumePriceUpTo(rows, i) ==
    SeqSum([j \in 1..i |->
               (rows[j].High + rows[j].Low + rows[j].Close) * rows[j].Volume])

C19_VwapPrefixStable ==
    op = "calculate_daily_vwap" =>
        LET rows == arg.series.rows
        IN /\ Len(ret.value.prefix) = arg.prefix_len
           /\ Len(ret.value.full) = Len(rows)
           /\ \A i \in 1..arg.prefix_len :
                ret.value.prefix[i] = ret.value.full[i]
           /\ \A i \in 1..Len(rows) :
                /\ ret.value.full[i].def = (VolumeUpTo(rows, i) # 0)
                /\ ret.value.full[i].def =>
                     ret.value.full[i].num * 3 * VolumeUpTo(rows, i)
                        = TripleVolumePriceUpTo(rows, i) * ret.value.full[i].den

C19_Witness ==
    /\ op = "calculate_daily_vwap"
    /\ arg.prefix_len = 3
    /\ Len(arg.series.rows) = 5
    /\ ret.value.prefix[3].def
    /\ ret.value.prefix[3] = ret.value.full[3]
    /\ ret.value.full[5].def
    /\ ~Eq(ret.value.full[5], ret.value.full[3])

(***************************************************************************)
(* C20: in cumulative VWAP mode, at any index whose bar has Volume = 0     *)
(* the VWAP value is a defined number and equals the VWAP value of the     *)
(* previous index, wherever in the series the zero-volume bar is.          *)
(***************************************************************************)
C20_ZeroVolumeKeepsVwap ==
    op = "calculate_daily_vwap" =>
        \A i \in 1..Len(arg.series.rows) :
            arg.series.rows[i].Volume = 0 =>
                /\ ret.value.full[i].def
                /\ i > 1 => /\ ret.value.full[i - 1].def
                            /\ Eq(ret.value.full[i], ret.value.full[i - 1])

(***************************************************************************)
(* Specification of one StockAnalyzer object shared by several             *)
(* analyze_stock calls (the analyzer KiteDataFetcher.__init__ creates is   *)
(* one object for all of its calls).  op is the driver: either             *)
(* analyze_multiple_stocks, whose loop starts a call when the previous one *)
(* has returned, or workers that run the calls concurrently.  tasks holds  *)
(* each call's arguments, position and local variables.                    *)
(*                                                                         *)
(* In this specification dictionaries are objects: objects maps the        *)
(* identity of a dictionary to its content, indicators is the identity     *)
(* self.indicators is bound to, and the 'indicators' entry of a result is  *)
(* the identity that was bound when the result was built.  Identity 0 is   *)
(* the {} of __init__, identity c the dictionary call c builds at line 56. *)
(* The series all have the same length, so every scanned index lies within *)
(* every bundle.                                                           *)
(***************************************************************************)
NCalls == 2
CallIds == 1..NCalls

SharedInputs ==
    { Gen(22, 1), Gen(22, 3), Gen(22, 4), Corrupt(Gen(22, 2), 21) }

NewTask(s, name) ==
    [ret |-> None, series |-> s, todo |-> <<>>, signals |-> <<>>,
     stock_name |-> name, bundle |-> EMPTY, pc |-> "start"]

\* Lines 42-53 of analyze_stock: validation and the calculators, which
\* touch no state of the analyzer.
LocalBundleOf(steps) ==
    LET failed == {k \in 1..Len(steps) : steps[k].res.status = "error"}
    IN IF failed # {}
       THEN steps[CHOOSE x \in failed : \A y \in failed : x <= y].res
       ELSE Ok(MakeBundle(steps))

LocalBundle(ohlc_data) ==
    IF ~ValidationGate(ohlc_data) THEN Raise("ValueError")
    ELSE LocalBundleOf(CalculatorSteps(ohlc_data))

StoreBundleMut(objs, self_ref, new_id, bundle) ==
    [objects |-> [objs EXCEPT ![self_ref] = bundle], ref |-> self_ref]

\* Lines 56-67: a new dictionary is built and self.indicators is bound to
\* it; the dictionary bound before is left as it was.
StoreBundle(objs, self_ref, new_id, bundle) ==
    [objects |-> [objs EXCEPT ![new_id] = bundle], ref |-> new_id]

\* analyze_multiple_stocks runs call c once the calls before it have
\* returned a result; an exception ends its loop.
CanRun(c) ==
    \/ op = "workers"
    \/ \A d \in 1..(c - 1) :
          tasks[d].pc = "done" /\ tasks[d].ret.status = "ok"

InitShared ==
    /\ indicators = 0
    /\ objects = [i \in 0..NCalls |-> EMPTY]
    /\ op \in {"analyze_multiple_stocks", "workers"}
    /\ tasks \in [CallIds -> { NewTask(s, name) : s \in SharedInputs, name \in StockNames }]
    /\ source = {}
    /\ produced = FALSE
    /\ arg = None
    /\ ret = None
    /\ calls = <<>>
    /\ scanned = <<>>
    /\ prev = [set |-> FALSE]
    /\ connector = None
    /\ authenticated = FALSE

\* Lines 42-67 of call c.
Store(c) ==
    /\ tasks[c].pc = "start"
    /\ CanRun(c)
    /\ \E b \in {LocalBundle(tasks[c].series)} :
          IF b.status = "error"
          THEN /\ tasks' = [tasks EXCEPT ![c].pc = "done", ![c].ret = b]
               /\ UNCHANGED <<indicators, objects>>
          ELSE \E st \in {StoreBundle(objects, indicators, c, b.value)} :
                  /\ objects' = st.objects
                  /\ indicators' = st.ref
                  /\ tasks' = [tasks EXCEPT ![c].pc = "stored",
                                            ![c].bundle = b.value]
    /\ UNCHANGED <<source, produced, op, arg, ret, calls, scanned, prev, connector, authenticated>>

\* Lines 70 and 109-114 of call c: the guard on self.indicators and the
\* range of the loop.
EnterScan(c) ==
    /\ tasks[c].pc = "stored"
    /\ tasks' = IF BundleMissing(objects[indicators])
                THEN [tasks EXCEPT ![c].pc = "done",
                                   ![c].ret = Raise("ValueError")]
                ELSE [tasks EXCEPT
                        ![c].pc = "scanning",
                        ![c].todo = Range(StartIdx(Len(tasks[c].series.rows), NoLookback),
                                          Len(tasks[c].series.rows))]
    /\ UNCHANGED <<indicators, objects, source, produced, op, arg, ret, calls, scanned, prev, connector, authenticated>>

\* Lines 116-121 of call c: one iteration, which reads self.indicators.
ScanIndex(c) ==
    /\ tasks[c].pc = "scanning"
    /\ tasks[c].todo # <<>>
    /\ \E signal \in {detect_increasing_market_signals(
                          tasks[c].series, objects[indicators], tasks[c].todo[1])} :
          tasks' = IF signal.status = "error"
                   THEN [tasks EXCEPT ![c].pc = "done", ![c].ret = signal]
                   ELSE [tasks EXCEPT
                           ![c].todo = Tail(tasks[c].todo),
                           ![c].signals =
                               IF signal.value # None
                               THEN Append(tasks[c].signals,
                                           StampSignal(signal.value, tasks[c].series,
                                                       tasks[c].todo[1]))
                               ELSE tasks[c].signals]
    /\ UNCHANGED <<indicators, objects, source, produced, op, arg, ret, calls, scanned, prev, connector, authenticated>>

\* Lines 123 and 72-77 of call c: the result, whose 'indicators' entry is
\* whatever self.indicators is bound to now.
Return(c) ==
    /\ tasks[c].pc = "scanning"
    /\ tasks[c].todo = <<>>
    /\ tasks' = [tasks EXCEPT
                   ![c].pc = "done",
                   ![c].ret = Ok([indicators |-> indicators,
                                  ohlc_data |-> tasks[c].series,
                                  stock_name |-> tasks[c].stock_name,
                                  trading_signals |-> tasks[c].signals])]
    /\ UNCHANGED <<indicators, objects, source, produced, op, arg, ret, calls, scanned, prev, connector, authenticated>>

NextShared ==
    \/ \E c \in CallIds : Store(c)
    \/ \E c \in CallIds : EnterScan(c)
    \/ \E c \in CallIds : ScanIndex(c)
    \/ \E c \in CallIds : Return(c)

SpecShared == InitShared /\ [][NextShared]_vars

\* Call c has returned a result.
Returned(c) == tasks[c].pc = "done" /\ tasks[c].ret.status = "ok"

\* The result of call c holds the bundle computed from its own series and
\* the signals detected against that bundle.
OwnResult(c) ==
    /\ objects[tasks[c].ret.value.indicators] = tasks[c].bundle
    /\ tasks[c].ret.value.trading_signals =
          detect_trading_signals(tasks[c].bundle, tasks[c].series, NoLookback).ret.value

(***************************************************************************)
(* C21: when analyze_stock calls for different series interleave on one    *)
(* shared StockAnalyzer, every call that returns has had its signals       *)
(* detected against the bundle of its own series and returns its own       *)
(* bundle, under every interleaving.                                       *)
(***************************************************************************)
C21_OwnBundleUnderInterleaving ==
    op = "workers" => \A c \in CallIds : Returned(c) => OwnResult(c)

(***************************************************************************)
(* KiteConnector (kite_integration/kite_connector.py).  connector holds    *)
(* the fields access_token and user_id and the token the broker SDK object *)
(* self.kite was given (session).  The broker is an input: it accepts the  *)
(* request tokens and access tokens listed below, and each call is given   *)
(* the outcome the broker produces for it.  A broker call made with a      *)
(* session token the broker does not accept raises KiteException.          *)
(***************************************************************************)
RaiseWith(kind, message) ==
    [status |-> "error", error |-> kind, value |-> None, message |-> message]

\* str(e) of a raised exception.
ErrorText(e) == IF "message" \in DOMAIN e THEN e.message ELSE e.error

AccessTokenNotSet ==
    RaiseWith("Exception", "Access token not set. Please authenticate first.")

\* A string held where None may be held as well.
Str(s) == [none |-> FALSE, str |-> s]

RequestTokens == {"request_accepted", "request_rejected"}
AccessTokens == {Str("token_accepted"), Str("token_rejected")}

BrokerAcceptsRequest(request_token) == request_token = "request_accepted"
BrokerAcceptsToken(access_token) == access_token = Str("token_accepted")

\* KiteConnector.__init__, lines 31-36.
NewConnector == [access_token |-> None, user_id |-> None, session |-> None]

\* `not self.access_token`
TokenMissing(conn) == conn.access_token = None

\* generate_session: the fields are assigned after the broker call returned.
generate_session(conn, request_token) ==
    IF ~BrokerAcceptsRequest(request_token)
    THEN [ret |-> RaiseWith("Exception", "Failed to generate session"),
          connector |-> conn]
    ELSE [ret |-> Ok([access_token |-> Str("token_accepted"), user_id |-> Str("user")]),
          connector |-> [access_token |-> Str("token_accepted"),
                         user_id |-> Str("user"), session |-> Str("token_accepted")]]

\* set_access_token: both tokens are assigned before the profile call that
\* verifies them; a KiteException of that call propagates as it is.
set_access_token(conn, access_token) ==
    IF ~BrokerAcceptsToken(access_token)
    THEN [ret |-> RaiseWith("KiteException", "profile"),
          connector |-> [access_token |-> access_token,
                         user_id |-> conn.user_id, session |-> access_token]]
    ELSE [ret |-> Ok(None),
          connector |-> [access_token |-> access_token, user_id |-> Str("user"),
                         session |-> access_token]]

\* Outcomes of the broker for one symbol: a failure, or the bars it returns.
FailureOutcomes ==
    { [kind |-> k, data |-> <<>>] :
        k \in {"instruments_api_error", "not_found", "history_api_error", "no_data"} }

BrokerBar(row) ==
    [date |-> row.Date, open |-> row.Open, high |-> row.High,
     low |-> row.Low, close |-> row.Close, volume |-> row.Volume]

Reversed(s) == [i \in 1..Len(s) |-> s[Len(s) + 1 - i]]

BrokerData(f) == Series([i \in 1..Len(f.rows) |-> BrokerBar(f.rows[i])])

DataOutcomes ==
    { [kind |-> "data", data |-> d] :
        d \in { Reversed(BrokerData(Gen(5, 1))), BrokerData(Gen(21, 3)),
                BrokerData(Gen(3, 1)), BrokerData(Corrupt(Gen(3, 1), 2)) } }

Outcomes == FailureOutcomes \cup DataOutcomes

InstrumentToken(symbol) == [instrument_token |-> symbol]

\* get_instrument_token, lines 142-152.
get_instrument_token(conn, symbol, outcome) ==
    IF TokenMissing(conn) THEN AccessTokenNotSet
    ELSE IF ~BrokerAcceptsToken(conn.session)
             \/ outcome.kind = "instruments_api_error"
    THEN RaiseWith("Exception", "Failed to fetch instruments")
    ELSE IF outcome.kind = "not_found" THEN Ok(None)
    ELSE Ok(InstrumentToken(symbol))

\* Lines 112-124: the columns renamed and the rows sorted by Date (the
\* dates of the bars are distinct).
SortByDate(rows) ==
    LET dates == SortedSeq({rows[i].Date : i \in 1..Len(rows)})
    IN Series([k \in 1..Len(dates) |->
                  rows[CHOOSE i \in 1..Len(rows) : rows[i].Date = dates[k]]])

ToFrame(data) ==
    Frame(required_columns,
          SortByDate(Series([i \in 1..Len(data) |->
              MkBar(data[i].date, data[i].open, data[i].high, data[i].low,
                    data[i].close, data[i].volume)])))

\* get_ohlc_data, lines 95-129.
get_ohlc_data(conn, instrument_token, outcome) ==
    IF TokenMissing(conn) THEN AccessTokenNotSet
    ELSE IF ~BrokerAcceptsToken(conn.session)
             \/ outcome.kind \in {"history_api_error", "instruments_api_error", "not_found"}
    THEN RaiseWith("Exception", "Failed to fetch OHLC data")
    ELSE IF outcome.data = <<>> THEN Ok(Frame(required_columns, <<>>))
    ELSE Ok(ToFrame(outcome.data))

\* place_order, get_positions, get_orders: the guard, then the broker call.
GuardedNames == {"place_order", "get_positions", "get_orders"}

guarded_call(conn, name) ==
    IF TokenMissing(conn) THEN AccessTokenNotSet
    ELSE IF ~BrokerAcceptsToken(conn.session)
    THEN RaiseWith("Exception", "Failed")
    ELSE Ok(name)

(***************************************************************************)
(* KiteDataFetcher (kite_integration/kite_data_fetcher.py): one connector  *)
(* and one StockAnalyzer, whose bundle is indicators.  fetch_and_analyze   *)
(* returns the analyzer's bundle after the call, the result or the error,  *)
(* and the collaborator calls it made, in order.                           *)
(***************************************************************************)
\* `not instrument_token`
InstrumentMissing(instrument_token) == instrument_token = None

\* ohlc_data.empty
NoDataMut(ohlc_data) == FALSE

NoData(ohlc_data) == ohlc_data.rows = <<>>

\* Lines 67-76.
AnalyzeFetched(exchange, symbol, instrument_token, ohlc_data, a) ==
    [indicators |-> a.indicators,
     ret |-> IF a.ret.status = "error" THEN a.ret
             ELSE Ok([ohlc_data |-> ohlc_data, signals |-> a.ret.value.trading_signals,
                      symbol |-> symbol,
                      instrument_token |-> instrument_token, exchange |-> exchange,
                      analysis |-> a.ret.value]),
     calls |-> <<"get_instrument_token", "get_ohlc_data", "analyze_stock">>]

\* Lines 53-67.
FetchBars(conn, self_indicators, exchange, symbol, instrument_token, ohlc) ==
    IF ohlc.status = "error"
    THEN [indicators |-> self_indicators, ret |-> ohlc,
          calls |-> <<"get_instrument_token", "get_ohlc_data">>]
    ELSE IF NoData(ohlc.value)
    THEN [indicators |-> self_indicators,
          ret |-> RaiseWith("ValueError", "No data found"),
          calls |-> <<"get_instrument_token", "get_ohlc_data">>]
    ELSE AnalyzeFetched(exchange, symbol, instrument_token, ohlc.value,
                        analyze_stock(self_indicators, ohlc.value, symbol))

\* Lines 43-58.
LookupThenFetch(conn, self_indicators, exchange, symbol, outcome, token) ==
    IF token.status = "error"
    THEN [indicators |-> self_indicators, ret |-> token,
          calls |-> <<"get_instrument_token">>]
    ELSE IF InstrumentMissing(token.value)
    THEN [indicators |-> self_indicators,
          ret |-> RaiseWith("ValueError", "Instrument not found"),
          calls |-> <<"get_instrument_token">>]
    ELSE FetchBars(conn, self_indicators, exchange, symbol, token.value,
                   get_ohlc_data(conn, token.value, outcome))

fetch_and_analyze(conn, self_indicators, exchange, symbol, outcome) ==
    LookupThenFetch(conn, self_indicators, exchange, symbol, outcome,
                    get_instrument_token(conn, symbol, outcome))

\* results[symbol] = entry
DictSet(d, k, v) == [x \in DOMAIN d \cup {k} |-> IF x = k THEN v ELSE d[x]]

\* Lines 93-97: the result of the call, or the record of its error.
BatchEntry(r) ==
    IF r.ret.status = "error" THEN [error |-> ErrorText(r.ret)]
    ELSE r.ret.value

BatchRestMut(symbols, r) ==
    IF r.ret.status = "error" THEN <<>> ELSE Tail(symbols)

\* Line 92: the loop goes on with the next symbol whatever the outcome was.
BatchRest(symbols, r) == Tail(symbols)

\* fetch_multiple_symbols, lines 91-99: the loop over the symbols still to
\* process, with the results and the calls made so far.
RECURSIVE BatchLoop(_, _, _, _, _, _, _)
BatchStep(conn, exchange, symbols, world, results, trace, r) ==
    BatchLoop(conn, r.indicators, exchange, BatchRest(symbols, r), world,
              DictSet(results, symbols[1], BatchEntry(r)),
              Append(trace, [symbol |-> symbols[1], call |-> "fetch_and_analyze"]))

BatchLoop(conn, self_indicators, exchange, symbols, world, results, trace) ==
    IF symbols = <<>>
    THEN [indicators |-> self_indicators, ret |-> Ok(results), calls |-> trace]
    ELSE BatchStep(conn, exchange, symbols, world, results, trace,
                   fetch_and_analyze(conn, self_indicators, exchange,
                                     symbols[1], world[symbols[1]]))

fetch_multiple_symbols(conn, self_indicators, symbols, exchange, world) ==
    BatchLoop(conn, self_indicators, exchange, symbols, world, <<>>, <<>>)

(***************************************************************************)
(* Specification of one KiteDataFetcher with its connector.  authenticated *)
(* records that some generate_session call succeeded or some               *)
(* set_access_token call passed its verification.                          *)
(***************************************************************************)
FetchSymbols == {"AAA", "BBB"}
MaxSymbols == 2

SymbolLists == UNION { [1..n -> FetchSymbols] : n \in 0..MaxSymbols }

SymbolsOf(symbols) == {symbols[i] : i \in 1..Len(symbols)}

InitKite ==
    /\ connector = NewConnector
    /\ authenticated = FALSE
    /\ indicators = EMPTY
    /\ op = "none"
    /\ arg = None
    /\ ret = None
    /\ calls = <<>>
    /\ source = {}
    /\ produced = FALSE
    /\ scanned = <<>>
    /\ prev = [set |-> FALSE]
    /\ tasks = <<>>
    /\ objects = <<>>

\* The calls that use the connector follow the construction or a call that
\* changes the state of the connector, which is the only state they read.
ConnectorSettled == op \in {"none", "generate_session", "set_access_token"}

GenerateSession(request_token) ==
    /\ \E r \in {generate_session(connector, request_token)} :
          /\ connector' = r.connector
          /\ ret' = r.ret
          /\ authenticated' = (authenticated \/ r.ret.status = "ok")
    /\ op' = "generate_session"
    /\ arg' = [token |-> request_token]
    /\ calls' = <<>>
    /\ UNCHANGED <<indicators, source, produced, scanned, prev, tasks, objects>>

SetAccessToken(access_token) ==
    /\ \E r \in {set_access_token(connector, access_token)} :
          /\ connector' = r.connector
          /\ ret' = r.ret
          /\ authenticated' = (authenticated \/ r.ret.status = "ok")
    /\ op' = "set_access_token"
    /\ arg' = [token |-> access_token]
    /\ calls' = <<>>
    /\ UNCHANGED <<indicators, source, produced, scanned, prev, tasks, objects>>

GetInstrumentToken(symbol, outcome) ==
    /\ ConnectorSettled
    /\ op' = "get_instrument_token"
    /\ arg' = [symbol |-> symbol, outcome |-> outcome]
    /\ ret' = get_instrument_token(connector, symbol, outcome)
    /\ calls' = <<>>
    /\ UNCHANGED <<indicators, source, produced, scanned, prev, tasks, objects, connector, authenticated>>

GetOhlcData(symbol, outcome) ==
    /\ ConnectorSettled
    /\ op' = "get_ohlc_data"
    /\ arg' = [symbol |-> symbol, outcome |-> outcome]
    /\ ret' = get_ohlc_data(connector, InstrumentToken(symbol), outcome)
    /\ calls' = <<>>
    /\ UNCHANGED <<indicators, source, produced, scanned, prev, tasks, objects, connector, authenticated>>

GuardedCall(name) ==
    /\ ConnectorSettled
    /\ op' = name
    /\ arg' = None
    /\ ret' = guarded_call(connector, name)
    /\ calls' = <<>>
    /\ UNCHANGED <<indicators, source, produced, scanned, prev, tasks, objects, connector, authenticated>>

FetchAndAnalyze(symbol, outcome) ==
    /\ ConnectorSettled
    /\ \E r \in {fetch_and_analyze(connector, indicators, "NSE", symbol, outcome)} :
          /\ indicators' = r.indicators
          /\ ret' = r.ret
          /\ calls' = r.calls
    /\ op' = "fetch_and_analyze"
    /\ arg' = [symbol |-> symbol, outcome |-> outcome]
    /\ UNCHANGED <<source, produced, scanned, prev, tasks, objects, connector, authenticated>>

\* The broker's outcome for each requested symbol is world[symbol].
FetchMultipleSymbols(symbols, world) ==
    /\ ConnectorSettled
    /\ \E r \in {fetch_multiple_symbols(connector, indicators, symbols, "NSE", world)} :
          /\ indicators' = r.indicators
          /\ ret' = r.ret
          /\ calls' = r.calls
    /\ op' = "fetch_multiple_symbols"
    /\ arg' = [symbols |-> symbols, world |-> world]
    /\ UNCHANGED <<source, produced, scanned, prev, tasks, objects, connector, authenticated>>

NextKite ==
    \/ \E request_token \in RequestTokens : GenerateSession(request_token)
    \/ \E access_token \in AccessTokens : SetAccessToken(access_token)
    \/ \E symbol \in FetchSymbols, outcome \in Outcomes :
          GetInstrumentToken(symbol, outcome)
    \/ \E symbol \in FetchSymbols, outcome \in Outcomes :
          GetOhlcData(symbol, outcome)
    \/ \E name \in GuardedNames : GuardedCall(name)
    \/ \E symbol \in FetchSymbols, outcome \in Outcomes :
          FetchAndAnalyze(symbol, outcome)
    \/ \E symbols \in SymbolLists :
          \E world \in [SymbolsOf(symbols) -> Outcomes] :
             FetchMultipleSymbols(symbols, world)

SpecKite == InitKite /\ [][NextKite]_vars

\* The broker fails the fetch of the call in arg, or the connector cannot
\* reach it.
BrokerSideFailure ==
    \/ connector.access_token = None
    \/ ~BrokerAcceptsToken(connector.session)
    \/ arg.outcome \in FailureOutcomes

(***************************************************************************)
(* C22: in fetch_and_analyze a broker-side failure (connector not          *)
(* authenticated, instrument not found, API failure, no data returned)     *)
(* surfaces as an error before the core is reached: analyze_stock is       *)
(* invoked only after the instrument lookup returned a token and a         *)
(* non-empty series was fetched, and never on a failing path.              *)
(***************************************************************************)
C22_BrokerFailureBeforeCore ==
    op = "fetch_and_analyze" =>
        /\ BrokerSideFailure =>
              /\ ret.status = "error"
              /\ ~Called("analyze_stock")
        /\ Called("analyze_stock") =>
              /\ calls = <<"get_instrument_token", "get_ohlc_data", "analyze_stock">>
              /\ get_instrument_token(connector, arg.symbol, arg.outcome)
                    = Ok(InstrumentToken(arg.symbol))
              /\ get_ohlc_data(connector, InstrumentToken(arg.symbol), arg.outcome).status = "ok"
              /\ get_ohlc_data(connector, InstrumentToken(arg.symbol), arg.outcome).value.rows # <<>>

\* A fetch that found the instrument but no bars, and ended with the
\* error before any analysis.
C22_Witness ==
    /\ op = "fetch_and_analyze"
    /\ connector.access_token # None
    /\ BrokerAcceptsToken(connector.session)
    /\ arg.outcome.kind = "no_data"
    /\ ret.status = "error"
    /\ calls = <<"get_instrument_token", "get_ohlc_data">>

(***************************************************************************)
(* The diagnostics of validate_ohlc_data: what the call prints.  Each      *)
(* check that fails prints its message and returns, so at most one message *)
(* is printed.                                                             *)
(***************************************************************************)
AnyRow(ohlc_data, lhs, rel, rhs) ==
    \E i \in 1..Len(ohlc_data.rows) :
        IF rel = "<" THEN ohlc_data.rows[i][lhs] < ohlc_data.rows[i][rhs]
        ELSE ohlc_data.rows[i][lhs] > ohlc_data.rows[i][rhs]

ValidationMessages(ohlc_data) ==
    IF ~(required_columns \subseteq ohlc_data.cols)
    THEN <<"Missing required columns">>
    ELSE IF \E i \in 1..Len(ohlc_data.rows) :
               \E c \in price_columns : ohlc_data.rows[i][c] < 0
    THEN <<"Found negative prices in OHLC data">>
    ELSE IF AnyRow(ohlc_data, "High", "<", "Low")
    THEN <<"High prices are not consistently >= Low prices">>
    ELSE IF AnyRow(ohlc_data, "High", "<", "Open")
    THEN <<"High prices are not consistently >= Open prices">>
    ELSE IF AnyRow(ohlc_data, "High", "<", "Close")
    THEN <<"High prices are not consistently >= Close prices">>
    ELSE IF AnyRow(ohlc_data, "Low", ">", "Open")
    THEN <<"Low prices are not consistently <= Open prices">>
    ELSE IF AnyRow(ohlc_data, "Low", ">", "Close")
    THEN <<"Low prices are not consistently <= Close prices">>
    ELSE <<>>

\* The rules a series violates, each named by the message that reports it.
\* A rule over a field the series lacks is not counted.
ViolatedRules(f) ==
    {m \in {"Missing required columns"} : ~(required_columns \subseteq f.cols)}
    \cup {m \in {"Found negative prices in OHLC data"} :
            \E i \in 1..Len(f.rows) :
               \E c \in price_columns \cap f.cols : f.rows[i][c] < 0}
    \cup {m \in {"High prices are not consistently >= Low prices"} :
            {"High", "Low"} \subseteq f.cols /\ AnyRow(f, "High", "<", "Low")}
    \cup {m \in {"High prices are not consistently >= Open prices"} :
            {"High", "Open"} \subseteq f.cols /\ AnyRow(f, "High", "<", "Open")}
    \cup {m \in {"High prices are not consistently >= Close prices"} :
            {"High", "Close"} \subseteq f.cols /\ AnyRow(f, "High", "<", "Close")}
    \cup {m \in {"Low prices are not consistently <= Open prices"} :
            {"Low", "Open"} \subseteq f.cols /\ AnyRow(f, "Low", ">", "Open")}
    \cup {m \in {"Low prices are not consistently <= Close prices"} :
            {"Low", "Close"} \subseteq f.cols /\ AnyRow(f, "Low", ">", "Close")}

(***************************************************************************)
(* C23: validate_ohlc_data never raises for a rule violation and reports   *)
(* a reason for every rule the series violates, also when it violates      *)
(* several rules at once.                                                  *)
(***************************************************************************)
C23_EveryViolatedRuleReported ==
    op = "validate_ohlc_data" =>
        /\ ret.status = "ok"
        /\ ret.value = (ValidationMessages(arg.series) = <<>>)
        /\ \A rule \in ViolatedRules(arg.series) :
              \E k \in 1..Len(ValidationMessages(arg.series)) :
                 ValidationMessages(arg.series)[k] = rule

\* max(1, window div 5)
AtLeastOne(w) == IF w >= 1 THEN w ELSE 1

(***************************************************************************)
(* C24: calculate_bollinger_bands and calculate_volatility hand the weekly *)
(* variant the window max(1, daily window div 5): the weekly part of their *)
(* result is what the weekly variant returns for that window, 4 for the    *)
(* daily window 20 and 1, never 0, for the daily windows 1..4.             *)
(***************************************************************************)
C24_WeeklyWindowAtLeastOne ==
    /\ op = "calculate_bollinger_bands" =>
          /\ WeeklyBollingerWindow(arg.window) = AtLeastOne(arg.window \div 5)
          /\ ret.status = "ok" =>
                ret.value.weekly_bollinger_bands =
                   calculate_weekly_bollinger_bands(
                       arg.series, AtLeastOne(arg.window \div 5), 2).value
    /\ op = "calculate_volatility" =>
          /\ WeeklyVolatilityWindow(arg.window) = AtLeastOne(arg.window \div 5)
          /\ ret.status = "ok" =>
                ret.value.weekly_volatility =
                   calculate_weekly_volatility(
                       arg.series, AtLeastOne(arg.window \div 5), arg.method).value

\* What fetch_and_analyze returns or raises for one symbol of the batch in
\* arg, taken on its own.
AloneInBatch(symbol) ==
    fetch_and_analyze(connector, EMPTY, "NSE", symbol, arg.world[symbol]).ret

(***************************************************************************)
(* C25: fetch_multiple_symbols processes every requested symbol in order   *)
(* whatever failed before, and its result map has exactly one entry per    *)
(* requested symbol: the analysis result if the symbol succeeded, an error *)
(* record if it failed.                                                    *)
(***************************************************************************)
C25_BatchIsolatesFailures ==
    op = "fetch_multiple_symbols" =>
        /\ ret.status = "ok"
        /\ calls = [i \in 1..Len(arg.symbols) |->
                       [symbol |-> arg.symbols[i], call |-> "fetch_and_analyze"]]
        /\ DOMAIN ret.value = SymbolsOf(arg.symbols)
        /\ \A symbol \in SymbolsOf(arg.symbols) :
              ret.value[symbol] =
                 IF AloneInBatch(symbol).status = "ok"
                 THEN AloneInBatch(symbol).value
                 ELSE [error |-> ErrorText(AloneInBatch(symbol))]

\* A batch of two symbols whose first symbol failed and whose second
\* symbol was analysed.
C25_Witness ==
    /\ op = "fetch_multiple_symbols"
    /\ Len(arg.symbols) = 2
    /\ arg.symbols[1] # arg.symbols[2]
    /\ "error" \in DOMAIN ret.value[arg.symbols[1]]
    /\ "analysis" \in DOMAIN ret.value[arg.symbols[2]]
    /\ ret.value[arg.symbols[2]].analysis.trading_signals # <<>>

(***************************************************************************)
(* C26: aggregate_daily_to_weekly is pure.  The caller's daily series is   *)
(* the same after the call as before it (same rows, order and columns, no  *)
(* grouping column added), for lengths that are a multiple of 5 and for    *)
(* the others, and a second call on that series returns the weekly series  *)
(* the first call returned.                                                *)
(***************************************************************************)
C26_AggregatePure ==
    [][Aggregate =>
          /\ arg'.series = arg.series
          /\ ret'.value = aggregate_daily_to_weekly(arg'.series)]_vars

\* An aggregation of whole weeks, where no leading bar is dropped.
C26_Witness ==
    /\ op = "aggregate_daily_to_weekly"
    /\ Len(arg.series.rows) >= 5
    /\ Len(arg.series.rows) % 5 = 0
    /\ Len(ret.value.rows) * 5 = Len(arg.series.rows)
    /\ arg.series.cols = required_columns

(***************************************************************************)
(* C27: in a sequential batch (analyze_multiple_stocks, or any sequence of *)
(* successful analyze_stock calls on one analyzer) each returned result    *)
(* holds the bundle and the signals computed from its own series, and a    *)
(* later call leaves the bundle and signals of an earlier result as they   *)
(* were.                                                                   *)
(***************************************************************************)
C27_SequentialResultsKept ==
    op = "analyze_multiple_stocks" =>
        \A c \in CallIds : Returned(c) => OwnResult(c)

\* Two calls on different series have returned one after the other, with
\* different signals, and the analyzer holds the bundle of the later one.
C27_Witness ==
    /\ op = "analyze_multiple_stocks"
    /\ Returned(1)
    /\ Returned(2)
    /\ tasks[1].series # tasks[2].series
    /\ tasks[1].ret.value.trading_signals # tasks[2].ret.value.trading_signals
    /\ indicators = tasks[2].ret.value.indicators
    /\ tasks[1].ret.value.indicators # tasks[2].ret.value.indicators

\* The indices i with max(20, len - k) <= i < len, in increasing order.
LastBarsFrom20(len, k) ==
    Range(IF len - k > 20 THEN len - k ELSE 20, len)

(***************************************************************************)
(* C28: detect_trading_signals(series, lookback_days=k) scans exactly the  *)
(* last k bars, clipped to the warm-up floor: for every k >= 0 the scanned *)
(* indices are those i with max(20, len-k) <= i < len, so k = 0 scans      *)
(* nothing, and only lookback_days=None scans every index from 20.         *)
(***************************************************************************)
C28_LookbackScansLastBars ==
    (op = "detect_trading_signals" /\ ret.status = "ok") =>
        scanned = IF arg.lookback.given
                  THEN LastBarsFrom20(Len(arg.series.rows), arg.lookback.days)
                  ELSE Range(20, Len(arg.series.rows))

(***************************************************************************)
(* C29: aggregation preserves bar validity.  For a daily series of at      *)
(* least 5 bars that passes validate_ohlc_data, the weekly series          *)
(* aggregate_daily_to_weekly returns passes validate_ohlc_data as well     *)
(* (non-negative prices, High >= Open, Close, Low and Low <= Open, Close   *)
(* in every weekly bar), and its dates are strictly increasing whenever    *)
(* the daily dates are.                                                    *)
(***************************************************************************)
C29_WeeklySeriesValid ==
    (/\ op = "aggregate_daily_to_weekly"
     /\ validate_ohlc_data(arg.series)
     /\ Len(arg.series.rows) >= 5) =>
        /\ validate_ohlc_data(ret.value)
        /\ \A j \in 1..Len(ret.value.rows) : BarConsistent(ret.value.rows[j])
        /\ DatesStrictlyIncreasing(arg.series) => DatesStrictlyIncreasing(ret.value)

\* A valid daily series with increasing dates gave several weekly bars, one
\* of them a falling week whose high is not the high of its last day.
C29_Witness ==
    /\ op = "aggregate_daily_to_weekly"
    /\ validate_ohlc_data(arg.series)
    /\ DatesStrictlyIncreasing(arg.series)
    /\ Len(ret.value.rows) >= 2
    /\ \E j \in 1..Len(ret.value.rows) :
          /\ ret.value.rows[j].Open > ret.value.rows[j].Close
          /\ ret.value.rows[j].High
                > arg.series.rows[(Len(arg.series.rows) % 5) + 5 * j].High

\* The operations of the connector that check access_token first.
GuardedOperations == GuardedNames \cup {"get_ohlc_data", "get_instrument_token"}

(***************************************************************************)
(* C30: after any sequence of generate_session and set_access_token calls  *)
(* the connector holds a non-null access_token only if some                *)
(* generate_session succeeded or some set_access_token passed its profile  *)
(* verification; after a set_access_token whose verification failed the    *)
(* connector is unauthenticated, so the guarded operations reject with     *)
(* 'Access token not set'.                                                 *)
(***************************************************************************)
C30_TokenOnlyAfterVerification ==
    /\ connector.access_token # None => authenticated
    /\ (op \in GuardedOperations /\ ~authenticated) => ret = AccessTokenNotSet

====
